---- MODULE Spec2Model ----
(***************************************************************************)
(* Contract-check engine of BenetEmbry/Demo:                               *)
(*   regression/auth.py          AuthConfig, OAuth2Token, token cache      *)
(*   regression/api_contract.py  run_contract_checks                       *)
(*                                                                         *)
(* Spec     several threads call get_bearer_token on one AuthConfig        *)
(* SpecSeq  one caller calls get_bearer_token on one AuthConfig            *)
(* SpecRun  one run of run_contract_checks over a contract document        *)
(***************************************************************************)
EXTENDS Integers, Sequences, FiniteSets, TLC

\* ------------------------------------------------------------------ bounds
NThreads == 2        \* threads sharing one AuthConfig in Spec
ConcCalls == 2       \* get_bearer_token calls started in one behaviour of Spec
ConcTime == 1        \* the clock runs over 0..ConcTime in Spec
MaxCalls == 3        \* get_bearer_token calls started in one behaviour of SpecSeq
MaxTime == 3         \* the clock runs over 0..MaxTime in SpecSeq
MaxChecks == 2       \* checks declared by a contract document
MaxQuery == 2        \* parameters in the query string of a caller's url
MaxAsserts == 2      \* assertions declared by a check
MaxNum == 3          \* the numbers of a payload and of a range run from 0 to MaxNum
MaxItems == 2        \* items of a declared any_of list
MaxRules == 2        \* header names with a rule in expected_headers
MaxRefs == 129       \* distinct schema references that exist
MaxCompiles == 2     \* validate_schema is called until a reference was compiled this often
MaxViolations == 6   \* violations iter_errors yields for one payload
MaxBuilt == 2        \* checks whose request a run of SpecRequest builds
RunTime == 1         \* the clock runs over 0..RunTime in SpecRun

\* ------------------------------------------------------- program constants
Skew == 10           \* auth.py:25, "10s skew"
DefaultStatus == 200 \* api_contract.py:197

\* Python's None for a nullable number or string (auth.py:19, 38).
None == -1
\* The static bearer token of SUT_OAUTH_TOKEN; issued tokens are tok-1, tok-2, ...
StaticToken == 0

\* expires_in of the token endpoint's answer: absent, not a number, or seconds.
Seconds(n) == [kind |-> "seconds", secs |-> n]
Absent == [kind |-> "absent", secs |-> 0]
NonNumeric == [kind |-> "non-numeric", secs |-> 0]
Maxsize == 128       \* lru_cache(maxsize=128)
Reported == 5        \* errors[:5]
Long == 3600
ExpiresInValues == {Absent, NonNumeric, Seconds(0), Seconds(Skew), Seconds(Skew + 1),
                    Seconds(Long)}

Threads == 1..NThreads

VARIABLES
    \* ---- the world
    now,              \* time.time()
    horizon,          \* the clock stops here
    expires_in,       \* what the token endpoint puts in expires_in
    token_calls,      \* POSTs sent to the token endpoint
    issued,           \* tokens the endpoint has issued; the last one is tok-issued
    exchange,         \* history: what the latest exchange came to
    \* ---- one AuthConfig instance (auth.py:28-47)
    bearer_token,
    oauth2_token_url,
    client_creds,     \* oauth2_client_id and oauth2_client_secret both set
    cached_token,     \* _cached_token: <<>> is None, <<tok>> an OAuth2Token
    lock,             \* _lock: None or the id of a threading.Lock
    nlocks,           \* Lock objects created so far
    holder,           \* holder[l]: the thread that holds Lock l, 0 when free
    \* ---- callers of get_bearer_token
    threads,          \* the threads that call
    ncalls,           \* calls started
    budget,           \* calls that may be started
    pc, mylock,
    obs,              \* history: what the latest call saw and returned
    \* ---- one run of run_contract_checks; the AuthConfig above is default_auth
    mode,             \* default_auth.mode
    nchecks,          \* checks the contract document declares
    idx,              \* the check the for loop is at
    rpc,              \* where the run is: "loop", "send", a stage, "returned", "raised"
    check,            \* the check being run
    auth_override,    \* <<check.get("auth")>> while the check's auth is resolved
    resp,             \* its response
    results,          \* the local list results
    returned,         \* <<>> until the run returns, then <<the list>>
    failure,          \* the exception that left the run
    sent,             \* history: the checks whose request went out, in order
    evaluated,        \* history: the stages evaluated for this check, with verdict
    trail,            \* history: the bearer token each check got from its AuthConfig
    \* ---- the api_key fields of the AuthConfig ("" for None and for the empty string)
    api_key, api_key_header, api_key_query_param,
    \* ---- a caller that prepares one request with the AuthConfig
    apc,              \* "none", "start", "url" (apply_url done), "done" (apply_headers done)
    arg_url,          \* the caller's url
    arg_headers,      \* the caller's header dict
    out_url,          \* what apply_url returned
    out_headers,      \* what apply_headers returned
    \* ---- one call of _apply_assertions(payload, assertions)
    payload,
    assertions,
    ai,               \* the assertion the for loop is at
    astate,           \* "none", "running", "passed" (returned) or "raised"
    aerr,             \* the error raised: by which assertion, of which kind
    resolved,         \* <<what _json_path_get returned for the latest assertion>>
    \* ---- one call of _apply_expected_headers(resp, expected)
    resp_headers,     \* resp.headers: for each name <<>> or <<its value>>
    expected_headers, \* the declared rules, <<name, rule>> in the order of the dict
    hidx,             \* the rule the for loop is at
    hstate,           \* "none", "running", "passed" (returned) or "raised"
    herr,             \* the error raised: by which rule, naming which header, of which kind
    \* ---- validate_schema and the cache of load_json_schema
    schema_cache,     \* the schema paths lru_cache holds, the least recently used first
    compiled,         \* how often Draft202012Validator(schema) was built for each path
    violations,       \* what iter_errors yielded in the latest call, in its order
    sresult,          \* how the latest call of validate_schema ended
    \* ---- the body of one response, from decoding to the result
    content,          \* resp.content, as text
    schema_declared,  \* the check has a schema
    tpc,              \* "none", "decode", "schema", "assert", "asserting", "append", "done", "raised"
    decoded,          \* resp.json() was called
    tfail,            \* what raised: "decode", "schema", "payload", or "none"
    appended,         \* <<the json of the HttpResult appended>>
    \* ---- the requests run_contract_checks builds
    base_headers,     \* the dict base_headers
    environ,          \* os.environ: the value of TOKEN, "" when it is not set
    built,            \* the requests dispatched so far
    attempt,          \* the latest check: its auth and how building its request ended
    rq_state          \* "none", "loop" or "raised"

authVars == <<now, horizon, expires_in, token_calls, issued, exchange, bearer_token,
              oauth2_token_url, client_creds, cached_token, lock, nlocks, holder>>
callVars == <<threads, ncalls, budget, pc, mylock, obs>>
runVars == <<mode, nchecks, idx, rpc, check, auth_override, resp, results, returned, failure,
             sent, evaluated, trail>>
applyVars == <<api_key, api_key_header, api_key_query_param, apc, arg_url, arg_headers,
               out_url, out_headers>>
assertVars == <<payload, assertions, ai, astate, aerr, resolved>>
headerVars == <<resp_headers, expected_headers, hidx, hstate, herr>>
schemaVars == <<schema_cache, compiled, violations, sresult>>
tailVars == <<content, schema_declared, tpc, decoded, tfail, appended>>
reqVars == <<base_headers, environ, built, attempt, rq_state>>
restVars == <<headerVars, schemaVars, tailVars, reqVars>>
otherVars == <<applyVars, assertVars, restVars>>
vars == <<authVars, callVars, runVars, otherVars>>

\* ------------------------------------------------------------ OAuth2Token
OAuth2Token(access_token, expires_at) ==
    [access_token |-> access_token, expires_at |-> expires_at]

is_expired_NoSkew(tok, t) ==
    IF tok.expires_at = None THEN FALSE ELSE t >= tok.expires_at

is_expired_Strict(tok, t) ==
    IF tok.expires_at = None THEN FALSE ELSE t > tok.expires_at - Skew

\* auth.py:21-25
is_expired(tok, t) ==
    IF tok.expires_at = None THEN FALSE ELSE t >= tok.expires_at - Skew

ExpiresAt_AbsentIsNow(ei, t) ==
    IF ei.kind # "seconds" THEN t ELSE t + ei.secs

\* auth.py:176-181: expires_at from the payload's expires_in, read at time t.
ExpiresAt(ei, t) ==
    IF ei.kind = "absent" THEN None
    ELSE IF ei.kind = "non-numeric" THEN None
    ELSE t + ei.secs

\* auth.py:91: the cached token can be returned.
CacheHit(cache, t) == cache # <<>> /\ ~is_expired(cache[1], t)

\* What an exchange came to: none was needed, none was asked for (auth.py:147-148),
\* or the POST of auth.py:162 was sent and came back with a status code and a
\* body (status 0: no answer, the request timed out).
NoExchange == [needed |-> FALSE, status |-> None, body |-> "none"]
NotAsked == [needed |-> TRUE, status |-> None, body |-> "none"]
Answer(st, b) == [needed |-> TRUE, status |-> st, body |-> b]
TimedOut == Answer(0, "none")
\* 304: a final answer that is neither 2xx nor an error status; 500 comes with a
\* well-formed token body, the status alone making it an error.
TokenStatuses == {200, 304}
TokenBodies == {"token", "no_access_token", "non_object"}
TokenAnswers ==
    {Answer(st, b) : st \in TokenStatuses, b \in TokenBodies}
    \cup {Answer(500, "token"), TimedOut}

\* auth.py:162-174: what _fetch_client_credentials_token makes of the answer.
\* raise_for_status raises for the status codes 400..599.
ExchangeOutcome(ans) ==
    IF ans.status = 0 THEN "timeout"
    ELSE IF ans.status >= 400 /\ ans.status < 600 THEN "http_error"
    ELSE IF ans.body = "non_object" THEN "non_object"
    ELSE IF ans.body = "no_access_token" THEN "no_access_token"
    ELSE "ok"

\* Outcomes of the POST of auth.py:162-174.
ExchangeOutcomes == {ExchangeOutcome(ans) : ans \in TokenAnswers}

\* obs.path: how the call went ("static", "nourl", "hit", "miss"); calls, cache, at:
\* token_calls, _cached_token and the clock when the call decided that; done, ret,
\* err: the call is over, with this return value or this exception.
Obs(path, done, r, e) ==
    [path |-> path, calls |-> token_calls, cache |-> cached_token, at |-> now,
     done |-> done, ret |-> r, err |-> e]
NoObs == [path |-> "none", calls |-> 0, cache |-> <<>>, at |-> 0,
          done |-> FALSE, ret |-> None, err |-> "none"]
Over(r, e) == [obs EXCEPT !.done = TRUE, !.ret = r, !.err = e]

\* ------------------------------------------------------- contract documents
\* Strings are sequences of characters.
Whitespace == {" ", "\t"}
LowerChar(c) ==
    CASE c = "A" -> "a" [] c = "B" -> "b" [] c = "E" -> "e" [] c = "H" -> "h"
      [] c = "N" -> "n" [] c = "O" -> "o" [] c = "R" -> "r" [] c = "T" -> "t"
      [] c = "U" -> "u" [] OTHER -> c
\* str.lower()
Lower(s) == [i \in DOMAIN s |-> LowerChar(s[i])]

RECURSIVE LStrip(_)
LStrip(s) == IF s # <<>> /\ Head(s) \in Whitespace THEN LStrip(Tail(s)) ELSE s
RECURSIVE RStrip(_)
RStrip(s) ==
    IF s # <<>> /\ s[Len(s)] \in Whitespace THEN RStrip(SubSeq(s, 1, Len(s) - 1)) ELSE s
\* str.strip()
Strip(s) == LStrip(RStrip(s))

\* The auth overrides a check may declare: check.get("auth") of api_contract.py:171,
\* <<>> standing for no auth key, a null and the empty string alike.
RawOverrides ==
    { <<>>,
      <<"d", "e", "f", "a", "u", "l", "t">>,
      <<"n", "o", "n", "e">>,
      <<"a", "p", "i", "_", "k", "e", "y">>,
      <<"a", "p", "i", "k", "e", "y">>,
      <<"o", "a", "u", "t", "h", "2">>,
      <<"b", "e", "a", "r", "e", "r">>,
      <<" ", "O", "A", "u", "t", "h", "2", "\t">>,
      <<" ", " ">>,
      <<"o", " ", "a", "u", "t", "h", "2">>,
      <<"b", "a", "s", "i", "c">> }

Resolve_NoAlias(raw) ==
    LET a == Lower(Strip(raw)) IN
    IF a \in {<<>>, <<"d", "e", "f", "a", "u", "l", "t">>} THEN "default"
    ELSE IF a = <<"n", "o", "n", "e">> THEN "none"
    ELSE IF a = <<"a", "p", "i", "_", "k", "e", "y">> THEN "api_key"
    ELSE IF a = <<"o", "a", "u", "t", "h", "2">> THEN "oauth2"
    ELSE "bogus"

\* api_contract.py:171-193: the branch the override takes.
Resolve(raw) ==
    LET a == Lower(Strip(raw)) IN
    IF a \in {<<>>, <<"d", "e", "f", "a", "u", "l", "t">>} THEN "default"
    ELSE IF a = <<"n", "o", "n", "e">> THEN "none"
    ELSE IF a \in {<<"a", "p", "i", "_", "k", "e", "y">>, <<"a", "p", "i", "k", "e", "y">>}
         THEN "api_key"
    ELSE IF a \in {<<"o", "a", "u", "t", "h", "2">>, <<"b", "e", "a", "r", "e", "r">>}
         THEN "oauth2"
    ELSE "bogus"

\* The branches: "default" is default_auth, "bogus" the else branch that raises.
AuthOverrides == {"default", "none", "api_key", "oauth2", "bogus"}
\* The rest of a check as run_contract_checks reads it (api_contract.py:164-207);
\* cfg names what is wrong with the check's shape, if anything.
\* expected_status: not declared (None), or declared as 0, 200 or 503.
ExpectedStatuses == {None, 0, 200, 503}
RunExpiresIn == {Absent, Seconds(0), Seconds(Skew + 1)}
Statuses == {200, 204, 503}
Bodies == {"empty", "invalid", "scalar", "object"}

CheckDef(cfg, e, h, sc, as) ==
    [cfg |-> cfg, expected_status |-> e, has_headers |-> h,
     has_schema |-> sc, has_assert |-> as]
NoCheck == CheckDef("ok", None, FALSE, FALSE, FALSE)
CheckDefs ==
    {CheckDef("ok", e, h, sc, as) :
        e \in ExpectedStatuses, h \in BOOLEAN, sc \in BOOLEAN, as \in BOOLEAN}
    \cup {CheckDef(cfg, None, FALSE, FALSE, FALSE) :
        cfg \in {"no_path", "bad_expected_headers", "bad_headers"}}

\* A response as the stages see it: status code, whether the declared header
\* rules hold, the body, whether the declared schema and assertions hold of it.
\* Status line and headers are known when session.request returns; the body part
\* is drawn when the run first reads it (resp.content, api_contract.py:222).
Response(st, h, b, sc, as) ==
    [status |-> st, hdr_ok |-> h, body |-> b, schema_ok |-> sc, assert_ok |-> as]
NoResp == Response(0, TRUE, "unread", TRUE, TRUE)
Heads(c) ==
    {Response(st, h, "unread", TRUE, TRUE) :
        st \in Statuses, h \in IF c.has_headers THEN BOOLEAN ELSE {TRUE}}
WithBody(r, c) ==
    UNION {{[r EXCEPT !.body = b, !.schema_ok = sc, !.assert_ok = as] :
              sc \in IF c.has_schema /\ b # "invalid" THEN BOOLEAN ELSE {TRUE},
              as \in IF c.has_assert /\ b = "object" THEN BOOLEAN ELSE {TRUE}} :
           b \in Bodies}

Failure(i, stage, expected, got) ==
    [check |-> i, stage |-> stage, expected |-> expected, got |-> got]
NoFailure == Failure(0, "none", None, None)

\* ---------------------------------------------------------------- Init
InitAuth(h) ==
    /\ now = 0
    /\ horizon = h
    /\ expires_in \in ExpiresInValues
    /\ token_calls = 0
    /\ issued = 0
    /\ exchange = NoExchange
    /\ bearer_token \in {None, StaticToken}
    /\ oauth2_token_url \in BOOLEAN
    /\ client_creds \in BOOLEAN
    /\ cached_token = <<>>
    /\ lock = None
    /\ nlocks = 0
    /\ holder = [l \in Threads |-> 0]

InitCalls(T, n) ==
    /\ threads = T
    /\ ncalls = 0
    /\ budget = n
    /\ pc = [t \in Threads |-> "idle"]
    /\ mylock = [t \in Threads |-> None]
    /\ obs = NoObs

\* No run: the AuthConfig is used directly, in oauth2 mode.
InitNoRun ==
    /\ mode = "oauth2"
    /\ nchecks = 0
    /\ idx = 1
    /\ rpc = "none"
    /\ check = NoCheck
    /\ auth_override = <<>>
    /\ resp = NoResp
    /\ results = <<>>
    /\ returned = <<>>
    /\ failure = NoFailure
    /\ sent = <<>>
    /\ evaluated = <<>>
    /\ trail = <<>>

\* ---------------------------------------------- urls and header dicts
\* A header value: a text, or "Bearer <token>" (auth.py:65).
Text(s) == [text |-> s, tok |-> None]
Bearer(t) == [text |-> "Bearer", tok |-> t]
\* A header dict is a function from the names it holds to their values.
NoHeaders == [n \in {} |-> Text("")]
HeaderNames == {"Accept", "X-API-Key", "Authorization"}
HeaderDicts ==
    UNION {[S -> {Text("old")}] : S \in SUBSET HeaderNames}
\* A url; query is the query string as the sequence of its name=value pairs.
Url(q) == [scheme |-> "https", netloc |-> "sut.example", path |-> "/v1/items", query |-> q]
QueryNames == {"page", "api_key"}
QueryValues == {"1", "2"}
RECURSIVE Queries(_)
Queries(n) ==
    IF n = 0 THEN {<<>>}
    ELSE Queries(n - 1) \cup
         {Append(q, <<k, v>>) : q \in {p \in Queries(n - 1) : Len(p) = n - 1},
                                k \in QueryNames, v \in QueryValues}
Urls == {Url(q) : q \in Queries(MaxQuery)}

\* No caller of apply_url and apply_headers.
InitNoApply ==
    /\ api_key = ""
    /\ api_key_header = "X-API-Key"
    /\ api_key_query_param = ""
    /\ apc = "none"
    /\ arg_url = Url(<<>>)
    /\ arg_headers = NoHeaders
    /\ out_url = Url(<<>>)
    /\ out_headers = NoHeaders

\* ------------------------------------------------------- JSON values
\* A decoded JSON value: its type, v for a scalar (the number, 0/1 for false/true,
\* a code for the string: 0 is ""), for a list its length, and kids, the
\* key-value pairs of an object. Python's None is the JSON null.
JNull == [t |-> "null", v |-> 0, kids |-> {}]
JBool(b) == [t |-> "bool", v |-> IF b THEN 1 ELSE 0, kids |-> {}]
JNum(n) == [t |-> "num", v |-> n, kids |-> {}]
JStr(code) == [t |-> "str", v |-> code, kids |-> {}]
\* A list has its items under the keys "0", "1", ...
IndexKey(i) == <<"0", "1", "2", "3">>[i]
JList(items) ==
    [t |-> "list", v |-> Len(items), kids |-> {<<IndexKey(i), items[i]>> : i \in DOMAIN items}]
JObj(kids) == [t |-> "obj", v |-> 0, kids |-> kids]
Leaves == {JNull, JBool(FALSE), JNum(0), JStr(0), JList(<<>>), JObj({}), JNum(5)}
Payloads ==
    {JObj({<<"a", l>>}) : l \in Leaves}
    \cup {JObj({<<"a", JObj({<<"b", l>>})>>}) : l \in Leaves}
    \cup {JList(<<JNull>>)}
\* A dotted path as the list of its segments; <<>> is no path.
Paths == {<<"a">>, <<"a", "b">>, <<"b">>}

\* An assertion of a check (api_contract.py:48-50, 60, 67, 78-81). min and max
\* are <<>> without the key and <<value>> with it; options tells whether any_of
\* is a list (its items are any_of), is missing, or is something else.
Assertion(type, path, expected, any_of) ==
    [type |-> type, path |-> path, expected |-> expected, options |-> "list",
     any_of |-> any_of, min |-> <<>>, max |-> <<>>]
OneOfAssertion(path, options, any_of) ==
    [type |-> "json_path_one_of", path |-> path, expected |-> JNull, options |-> options,
     any_of |-> any_of, min |-> <<>>, max |-> <<>>]
RangeAssertion(path, min, max) ==
    [type |-> "json_path_range", path |-> path, expected |-> JNull, options |-> "missing",
     any_of |-> <<>>, min |-> min, max |-> max]
Assertions ==
    {Assertion("json_path_exists", p, JNull, <<>>) : p \in Paths \cup {<<>>}}
    \cup {Assertion("json_path_equals", p, e, <<>>) : p \in Paths, e \in {JNull, JNum(0)}}
    \cup {Assertion("json_path_one_of", p, JNull, o) :
             p \in {<<"a">>, <<"b">>}, o \in {<<>>, <<JNull, JNum(5)>>}}
    \cup {RangeAssertion(<<"a">>, <<JNum(1)>>, <<>>)}
    \cup {Assertion("json_path_matches", <<"a">>, JNull, <<>>)}
RECURSIVE AssertionLists(_)
AssertionLists(n) ==
    IF n = 0 THEN {<<>>}
    ELSE AssertionLists(n - 1) \cup
         {Append(l, a) : l \in {m \in AssertionLists(n - 1) : Len(m) = n - 1},
                         a \in Assertions}
\* The error raised: by which assertion, of which kind, and <<the actual value
\* its message shows>>.
NoError == [index |-> 0, kind |-> "none", got |-> <<>>]

\* No call of _apply_assertions.
InitNoAssert ==
    /\ payload = JNull
    /\ assertions = <<>>
    /\ ai = 1
    /\ astate = "none"
    /\ aerr = NoError
    /\ resolved = <<>>

\* No call of _apply_expected_headers.
NoHeaderError == [index |-> 0, name |-> "", kind |-> "none"]
InitNoHeaders ==
    /\ resp_headers = <<>>
    /\ expected_headers = <<>>
    /\ hidx = 1
    /\ hstate = "none"
    /\ herr = NoHeaderError

\* Schema paths: 0 is a file that does not exist, 1..MaxRefs exist.
MissingRef == 0
SchemaRefs == 0..MaxRefs
NoResult == [ref |-> MissingRef, state |-> "none", reported |-> <<>>]
\* A fresh process: nothing cached, nothing validated.
InitNoSchema ==
    /\ schema_cache = <<>>
    /\ compiled = [r \in SchemaRefs |-> 0]
    /\ violations = <<>>
    /\ sresult = NoResult

\* No response body at hand.
InitNoTail ==
    /\ content = ""
    /\ schema_declared = FALSE
    /\ tpc = "none"
    /\ decoded = FALSE
    /\ tfail = "none"
    /\ appended = <<>>

\* No request being built.
NoAttempt == [auth |-> "default", err |-> "none"]
\* The token of SUT_TOKEN, different from every token of the oauth2 mode.
LegacyToken == -2
\* The variables of the environment the run reads; SUT_OAUTH_CLIENT stands for
\* SUT_OAUTH_CLIENT_ID and SUT_OAUTH_CLIENT_SECRET, TOKEN is a variable a
\* contract refers to.
Environ(tok, key, param, static, url, client, var) ==
    [SUT_TOKEN |-> tok, SUT_API_KEY |-> key, SUT_API_KEY_QUERY_PARAM |-> param,
     SUT_OAUTH_TOKEN |-> static, SUT_OAUTH_TOKEN_URL |-> url, SUT_OAUTH_CLIENT |-> client,
     TOKEN |-> var]
NoEnviron == Environ(None, "", "", None, FALSE, FALSE, "")
InitNoReq ==
    /\ base_headers = NoHeaders
    /\ environ = NoEnviron
    /\ built = <<>>
    /\ attempt = NoAttempt
    /\ rq_state = "none"

InitNoRest == InitNoHeaders /\ InitNoSchema /\ InitNoTail /\ InitNoReq
InitNoOther == InitNoApply /\ InitNoAssert /\ InitNoRest

Init == InitAuth(ConcTime) /\ InitCalls(Threads, ConcCalls) /\ InitNoRun /\ InitNoOther
InitSeq == InitAuth(MaxTime) /\ InitCalls({1}, MaxCalls) /\ InitNoRun /\ InitNoOther

\* ---------------------------------------------------------------- time
Tick ==
    /\ now < horizon
    /\ now' = now + 1
    /\ UNCHANGED <<horizon, expires_in, token_calls, issued, exchange, bearer_token,
                   oauth2_token_url, client_creds, cached_token, lock, nlocks, holder,
                   callVars, runVars, otherVars>>

\* ------------------------------------------------- AuthConfig.get_bearer_token
Release(t) == [l \in Threads |-> IF holder[l] = t THEN 0 ELSE holder[l]]

Call_UrlFirst(t) ==
    /\ pc[t] = "idle"
    /\ ncalls < budget
    /\ ncalls' = ncalls + 1
    /\ IF oauth2_token_url
       THEN pc' = [pc EXCEPT ![t] = "getlock"] /\ obs' = NoObs
       ELSE pc' = pc /\ obs' = Obs("static", TRUE, bearer_token, "none")
    /\ UNCHANGED <<authVars, threads, budget, mylock, runVars, otherVars>>

\* auth.py:81-88: static token wins; no token URL, no token.
Call(t) ==
    /\ pc[t] = "idle"
    /\ ncalls < budget
    /\ ncalls' = ncalls + 1
    /\ IF bearer_token # None
       THEN pc' = pc /\ obs' = Obs("static", TRUE, bearer_token, "none")
       ELSE IF ~oauth2_token_url
       THEN pc' = pc /\ obs' = Obs("nourl", TRUE, None, "none")
       ELSE pc' = [pc EXCEPT ![t] = "getlock"] /\ obs' = NoObs
    /\ UNCHANGED <<authVars, threads, budget, mylock, runVars, otherVars>>

\* auth.py:50: if self._lock is None
GetLockTest(t) ==
    /\ pc[t] = "getlock"
    /\ pc' = [pc EXCEPT ![t] = IF lock = None THEN "mklock" ELSE "retlock"]
    /\ UNCHANGED <<authVars, threads, ncalls, budget, mylock, obs, runVars, otherVars>>

\* auth.py:51: self._lock = threading.Lock()
MakeLock(t) ==
    /\ pc[t] = "mklock"
    /\ nlocks' = nlocks + 1
    /\ lock' = nlocks + 1
    /\ pc' = [pc EXCEPT ![t] = "retlock"]
    /\ UNCHANGED <<now, horizon, expires_in, token_calls, issued, exchange, bearer_token,
                   oauth2_token_url, client_creds, cached_token, holder, threads, ncalls, budget, mylock, obs, runVars, otherVars>>

\* auth.py:52: return self._lock
ReturnLock(t) ==
    /\ pc[t] = "retlock"
    /\ mylock' = [mylock EXCEPT ![t] = lock]
    /\ pc' = [pc EXCEPT ![t] = "acquire"]
    /\ UNCHANGED <<authVars, threads, ncalls, budget, obs, runVars, otherVars>>

\* auth.py:90: with <lock>: blocks until the Lock is free.
Acquire(t) ==
    /\ pc[t] = "acquire"
    /\ holder[mylock[t]] = 0
    /\ holder' = [holder EXCEPT ![mylock[t]] = t]
    /\ pc' = [pc EXCEPT ![t] = "check"]
    /\ UNCHANGED <<now, horizon, expires_in, token_calls, issued, exchange, bearer_token,
                   oauth2_token_url, client_creds, cached_token, lock, nlocks, threads, ncalls, budget, mylock, obs, runVars, otherVars>>

Leave_Held(t) ==
    /\ holder' = holder
    /\ mylock' = [mylock EXCEPT ![t] = None]
    /\ pc' = [pc EXCEPT ![t] = "idle"]

\* The with block is left, by return or by exception: the Lock is released.
Leave(t) ==
    /\ holder' = Release(t)
    /\ mylock' = [mylock EXCEPT ![t] = None]
    /\ pc' = [pc EXCEPT ![t] = "idle"]

\* auth.py:91-92: the cached token, when there is one that is not expired.
CheckCache(t) ==
    /\ pc[t] = "check"
    /\ IF CacheHit(cached_token, now)
       THEN /\ obs' = Obs("hit", TRUE, cached_token[1].access_token, "none")
            /\ Leave(t)
       ELSE /\ obs' = Obs("miss", FALSE, None, "none")
            /\ pc' = [pc EXCEPT ![t] = "fetch"]
            /\ UNCHANGED <<holder, mylock>>
    /\ UNCHANGED <<now, horizon, expires_in, token_calls, issued, exchange, bearer_token,
                   oauth2_token_url, client_creds, cached_token, lock, nlocks, threads, ncalls, budget, runVars, otherVars>>

\* auth.py:94, 147-162: without client id or secret raise, else POST to the token URL.
Fetch(t) ==
    /\ pc[t] = "fetch"
    /\ IF ~client_creds
       THEN /\ obs' = Over(None, "config")
            /\ exchange' = NotAsked
            /\ Leave(t)
            /\ UNCHANGED token_calls
       ELSE /\ token_calls' = token_calls + 1
            /\ pc' = [pc EXCEPT ![t] = "wait"]
            /\ UNCHANGED <<obs, holder, mylock, exchange>>
    /\ UNCHANGED <<now, horizon, expires_in, issued, bearer_token, oauth2_token_url,
                   client_creds, cached_token, lock, nlocks, threads, ncalls, budget, runVars, otherVars>>

Respond_NoStore(t) ==
    /\ pc[t] = "wait"
    /\ \E ans \in TokenAnswers :
         LET outcome == ExchangeOutcome(ans) IN
         /\ exchange' = ans
         /\ IF outcome = "ok"
            THEN /\ issued' = issued + 1
                 /\ obs' = Over(issued + 1, "none")
                 /\ UNCHANGED cached_token
            ELSE /\ obs' = Over(None, outcome)
                 /\ UNCHANGED <<issued, cached_token>>
    /\ Leave(t)
    /\ UNCHANGED <<now, horizon, expires_in, token_calls, bearer_token, oauth2_token_url,
                   client_creds, lock, nlocks, threads, ncalls, budget, runVars, otherVars>>

\* auth.py:162-183, 100-101: the answer arrives; a token is cached and returned,
\* anything else raises out of the with block.
Respond(t) ==
    /\ pc[t] = "wait"
    /\ \E ans \in TokenAnswers :
         LET outcome == ExchangeOutcome(ans) IN
         /\ exchange' = ans
         /\ IF outcome = "ok"
            THEN /\ issued' = issued + 1
                 /\ cached_token' = <<OAuth2Token(issued + 1, ExpiresAt(expires_in, now))>>
                 /\ obs' = Over(issued + 1, "none")
            ELSE /\ obs' = Over(None, outcome)
                 /\ UNCHANGED <<issued, cached_token>>
    /\ Leave(t)
    /\ UNCHANGED <<now, horizon, expires_in, token_calls, bearer_token, oauth2_token_url,
                   client_creds, lock, nlocks, threads, ncalls, budget, runVars, otherVars>>

Next ==
    \/ Tick
    \/ \E t \in threads : Call(t)
    \/ \E t \in threads : GetLockTest(t)
    \/ \E t \in threads : MakeLock(t)
    \/ \E t \in threads : ReturnLock(t)
    \/ \E t \in threads : Acquire(t)
    \/ \E t \in threads : CheckCache(t)
    \/ \E t \in threads : Fetch(t)
    \/ \E t \in threads : Respond(t)

Spec == Init /\ [][Next]_vars
SpecSeq == InitSeq /\ [][Next]_vars

\* Every thread that can take a step of get_bearer_token takes one in the end:
\* the interpreter switches between the runnable threads, and the POST at
\* auth.py:162 has a timeout.
\* Two threads share an AuthConfig that has no static token and a complete
\* client-credentials configuration, so every call goes through the lock.
Pair == {1, 2}
InitLive ==
    /\ InitAuth(ConcTime) /\ InitCalls(Pair, ConcCalls) /\ InitNoRun /\ InitNoOther
    /\ bearer_token = None
    /\ oauth2_token_url
    /\ client_creds
Fairness ==
    \A t \in Pair :
        /\ WF_vars(GetLockTest(t))
        /\ WF_vars(MakeLock(t))
        /\ WF_vars(ReturnLock(t))
        /\ SF_vars(Acquire(t))
        /\ WF_vars(CheckCache(t))
        /\ WF_vars(Fetch(t))
        /\ WF_vars(Respond(t))
SpecLive == InitLive /\ [][Next]_vars /\ Fairness

\* ================================================== run_contract_checks
\* api_contract.py:155, auth.py:104-137: default_auth from the environment; the
\* oauth2 fields are read in oauth2 mode only.
InitRun ==
    /\ now = 0
    /\ horizon = RunTime
    /\ token_calls = 0
    /\ issued = 0
    /\ exchange = NoExchange
    /\ mode \in {"none", "api_key", "oauth2"}
    /\ bearer_token \in IF mode = "oauth2" THEN {None, StaticToken} ELSE {None}
    /\ oauth2_token_url \in IF mode = "oauth2" THEN BOOLEAN ELSE {FALSE}
    /\ client_creds \in IF mode = "oauth2" THEN BOOLEAN ELSE {FALSE}
    /\ expires_in \in IF bearer_token = None /\ oauth2_token_url /\ client_creds
                      THEN RunExpiresIn ELSE {Absent}
    /\ cached_token = <<>>
    /\ lock = None
    /\ nlocks = 0
    /\ holder = [l \in Threads |-> 0]
    /\ InitCalls({}, 0)
    /\ nchecks \in 0..MaxChecks
    /\ idx = 1
    /\ rpc = "loop"
    /\ check = NoCheck
    /\ auth_override = <<>>
    /\ resp = NoResp
    /\ results = <<>>
    /\ returned = <<>>
    /\ failure = NoFailure
    /\ sent = <<>>
    /\ evaluated = <<>>
    /\ trail = <<>>
    /\ InitNoOther

\* api_contract.py:171-191: the mode of the AuthConfig a check with override a uses.
EffMode(a) == IF a = "default" THEN mode ELSE a

StartCache_Shared(a) == cached_token

\* api_contract.py:172-191: the token cache of the AuthConfig the check uses:
\* default_auth's, or the empty one of a newly constructed AuthConfig.
StartCache(a) == IF a = "default" THEN cached_token ELSE <<>>

\* auth.py:81-101 run by one thread: get_bearer_token on an AuthConfig with
\* default_auth's credential fields and the given cache, the token endpoint
\* answering with outcome.
Token(r, e, cache, posts, new) ==
    [ret |-> r, err |-> e, cache |-> cache, posts |-> posts, issued |-> new]

get_bearer_token(cache, outcome) ==
    IF bearer_token # None THEN Token(bearer_token, "none", cache, 0, 0)
    ELSE IF ~oauth2_token_url THEN Token(None, "none", cache, 0, 0)
    ELSE IF CacheHit(cache, now) THEN Token(cache[1].access_token, "none", cache, 0, 0)
    ELSE IF ~client_creds THEN Token(None, "config", cache, 0, 0)
    ELSE IF outcome = "ok"
         THEN Token(issued + 1, "none",
                    <<OAuth2Token(issued + 1, ExpiresAt(expires_in, now))>>, 1, 1)
         ELSE Token(None, outcome, cache, 1, 0)

\* auth.py:54-68: apply_headers; only oauth2 mode asks for a bearer token.
apply_headers(a, outcome) ==
    IF EffMode(a) = "oauth2" THEN get_bearer_token(StartCache(a), outcome)
    ELSE Token(None, "none", StartCache(a), 0, 0)

NeedsExchange(a) ==
    /\ EffMode(a) = "oauth2" /\ bearer_token = None /\ oauth2_token_url /\ client_creds
    /\ ~CacheHit(StartCache(a), now)

\* auth.py:90, 49-52: default_auth makes its Lock the first time it needs one.
UsesLock(a) ==
    a = "default" /\ mode = "oauth2" /\ bearer_token = None /\ oauth2_token_url

\* What a check got: the bearer token, and for a token of the token endpoint
\* whether the check's own AuthConfig (an override) holds it.
Used(a, g) == [token |-> g.ret, override |-> g.ret >= 1 /\ a # "default"]

Raise(stage, expected, got) ==
    /\ failure' = Failure(idx, stage, expected, got)
    /\ rpc' = "raised"

\* api_contract.py:164-208: the check is read, its AuthConfig resolved and applied.
Prepare ==
    /\ rpc = "loop"
    /\ idx <= nchecks
    /\ \E raw \in RawOverrides, c \in CheckDefs :
         LET a == Resolve(raw) IN
         /\ check' = c
         /\ auth_override' = <<raw>>
         /\ evaluated' = <<>>
         /\ IF c.cfg = "no_path" \/ a = "bogus" \/ c.cfg = "bad_expected_headers"
            THEN /\ Raise(IF c.cfg # "no_path" /\ a = "bogus" THEN "override" ELSE "config",
                          None, None)
                 /\ exchange' = NoExchange
                 /\ UNCHANGED <<token_calls, issued, cached_token, lock, nlocks, trail>>
            ELSE \E ans \in IF NeedsExchange(a) THEN TokenAnswers ELSE {NoExchange} :
                   LET g == apply_headers(a, ExchangeOutcome(ans)) IN
                   /\ exchange' = IF g.err = "config" THEN NotAsked ELSE ans
                   /\ token_calls' = token_calls + g.posts
                   /\ issued' = issued + g.issued
                   /\ cached_token' = IF a = "default" THEN g.cache ELSE cached_token
                   /\ lock' = IF UsesLock(a) /\ lock = None THEN nlocks + 1 ELSE lock
                   /\ nlocks' = IF UsesLock(a) /\ lock = None THEN nlocks + 1 ELSE nlocks
                   /\ IF g.err # "none"
                      THEN /\ Raise(IF g.err = "config" THEN "config" ELSE "auth", None, None)
                           /\ trail' = trail
                      ELSE /\ trail' = Append(trail, Used(a, g))
                           /\ IF c.cfg = "bad_headers"
                              THEN Raise("config", None, None)
                              ELSE rpc' = "send" /\ failure' = failure
    /\ UNCHANGED <<now, horizon, expires_in, bearer_token, oauth2_token_url, client_creds,
                   holder, callVars, otherVars, mode, nchecks, idx, resp, results, returned, sent>>

Pipeline_HeadersFirst == <<"headers", "status", "decode", "schema", "assert">>

\* api_contract.py:212-229: the validation stages, in the order they run.
Pipeline == <<"status", "headers", "decode", "schema", "assert">>

Pos(s) == CHOOSE i \in 1..Len(Pipeline) : Pipeline[i] = s
After(s) == IF Pos(s) < Len(Pipeline) THEN Pipeline[Pos(s) + 1] ELSE "append"

Send_Retry ==
    /\ rpc = "send"
    /\ sent' = Append(sent, idx)
    /\ auth_override' = <<>>
    /\ \E net \in {"ok", "timeout", "connection"} :
         IF net = "ok"
         THEN /\ \E r \in Heads(check) : resp' = r
              /\ rpc' = Pipeline[1]
              /\ failure' = failure
         ELSE /\ IF Len(sent) < idx THEN rpc' = rpc /\ failure' = failure
                 ELSE Raise("network", None, None)
              /\ resp' = resp
    /\ UNCHANGED <<authVars, callVars, otherVars, mode, nchecks, idx, check, results, returned,
                   evaluated, trail>>

\* api_contract.py:210: session.request; the request goes out, an answer or a
\* network error comes back.
Send ==
    /\ rpc = "send"
    /\ sent' = Append(sent, idx)
    /\ auth_override' = <<>>
    /\ \E net \in {"ok", "timeout", "connection"} :
         IF net = "ok"
         THEN /\ \E r \in Heads(check) : resp' = r
              /\ rpc' = Pipeline[1]
              /\ failure' = failure
         ELSE /\ Raise("network", None, None)
              /\ resp' = resp
    /\ UNCHANGED <<authVars, callVars, otherVars, mode, nchecks, idx, check, results, returned,
                   evaluated, trail>>

\* api_contract.py:197: int(check.get("expected_status") or 200)
ExpectedStatus(c) ==
    IF c.expected_status \in {None, 0} THEN DefaultStatus ELSE c.expected_status

\* api_contract.py:213-215
StatusOK(r, c) == r.status = ExpectedStatus(c)

\* Whether the stage runs for check c and response r (api_contract.py:218, 222,
\* 223, 227).
Declared(s, c, r) ==
    CASE s = "status" -> TRUE
      [] s = "headers" -> c.has_headers
      [] s = "decode" -> r.body # "empty"
      [] s = "schema" -> c.has_schema
      [] s = "assert" -> c.has_assert

\* Whether the stage passes (api_contract.py:213-229).
Passes(s, c, r) ==
    CASE s = "status" -> StatusOK(r, c)
      [] s = "headers" -> r.hdr_ok
      [] s = "decode" -> r.body # "invalid"
      [] s = "schema" -> r.schema_ok
      [] s = "assert" -> r.body = "object" /\ r.assert_ok

HttpResult(i, r) == [check |-> i, status_code |-> r.status]

Verdict(s, ok) == [stage |-> s, ok |-> ok]

Advance_Prepend(s, ev, r) ==
    IF After(s) = "append"
    THEN /\ results' = <<HttpResult(idx, r)>> \o results
         /\ idx' = idx + 1
         /\ rpc' = "loop"
         /\ check' = NoCheck /\ resp' = NoResp /\ evaluated' = <<>>
         /\ exchange' = NoExchange
    ELSE /\ rpc' = After(s)
         /\ evaluated' = ev
         /\ resp' = r
         /\ UNCHANGED <<results, idx, check, exchange>>

\* The stage is passed: on to the next one, and after the last one the result is
\* appended (api_contract.py:231) and the loop goes on to the next check.
Advance(s, ev, r) ==
    IF After(s) = "append"
    THEN /\ results' = Append(results, HttpResult(idx, r))
         /\ idx' = idx + 1
         /\ rpc' = "loop"
         /\ check' = NoCheck /\ resp' = NoResp /\ evaluated' = <<>>
         /\ exchange' = NoExchange
    ELSE /\ rpc' = After(s)
         /\ evaluated' = ev
         /\ resp' = r
         /\ UNCHANGED <<results, idx, check, exchange>>

Fail_Continue(s, r) ==
    /\ failure' = failure
    /\ idx' = idx + 1
    /\ rpc' = "loop"
    /\ UNCHANGED <<results, exchange>>

\* The stage fails: its assertion error leaves run_contract_checks.
Fail(s, r) ==
    /\ IF s = "status"
       THEN Raise(s, ExpectedStatus(check), r.status)
       ELSE Raise(s, None, None)
    /\ UNCHANGED <<results, idx, exchange>>

\* One stage of the pipeline, r being the response as far as it is read by then.
RunStage(s, r) ==
    /\ rpc = s
    /\ IF ~Declared(s, check, r)
       THEN /\ failure' = failure
            /\ Advance(s, evaluated, r)
       ELSE IF Passes(s, check, r)
       THEN /\ failure' = failure
            /\ Advance(s, Append(evaluated, Verdict(s, TRUE)), r)
       ELSE /\ evaluated' = Append(evaluated, Verdict(s, FALSE))
            /\ resp' = r
            /\ Fail(s, r)
            /\ UNCHANGED check
    /\ UNCHANGED <<now, horizon, expires_in, token_calls, issued, bearer_token,
                   oauth2_token_url, client_creds, cached_token, lock, nlocks, holder,
                   callVars, otherVars, mode, nchecks, auth_override, returned, sent, trail>>

StatusStage == RunStage("status", resp)
HeadersStage == RunStage("headers", resp)
DecodeStage == \E r \in WithBody(resp, check) : RunStage("decode", r)
SchemaStage == RunStage("schema", resp)
AssertStage == RunStage("assert", resp)

\* api_contract.py:233
Return ==
    /\ rpc = "loop"
    /\ idx > nchecks
    /\ returned' = <<results>>
    /\ rpc' = "returned"
    /\ UNCHANGED <<authVars, callVars, otherVars, mode, nchecks, idx, check, auth_override, resp,
                   results, failure, sent, evaluated, trail>>

\* The run reads the clock only in get_bearer_token, to stamp a new token and to
\* test the cached one: the time that passes is accounted between two checks, and
\* from the moment the run-wide cache holds a token.
Elapse == rpc = "loop" /\ cached_token # <<>> /\ Tick

NextRun ==
    \/ Elapse
    \/ Prepare
    \/ Send
    \/ StatusStage
    \/ HeadersStage
    \/ DecodeStage
    \/ SchemaStage
    \/ AssertStage
    \/ Return

SpecRun == InitRun /\ [][NextRun]_vars

\* ============================================== apply_url, apply_headers
\* One caller prepares one request as run_contract_checks (api_contract.py:195,
\* 204) and ApiSutAdapter do: url = auth.apply_url(url), then
\* headers = auth.apply_headers(headers).
InitApply ==
    /\ now = 0
    /\ horizon = 0
    /\ token_calls = 0
    /\ issued = 0
    /\ exchange = NoExchange
    /\ mode \in {"none", "api_key", "oauth2"}
    /\ bearer_token \in IF mode = "oauth2" THEN {None, StaticToken} ELSE {None}
    /\ oauth2_token_url \in IF mode = "oauth2" THEN BOOLEAN ELSE {FALSE}
    /\ client_creds \in IF mode = "oauth2" THEN BOOLEAN ELSE {FALSE}
    /\ expires_in = Absent
    /\ cached_token = <<>>
    /\ lock = None
    /\ nlocks = 0
    /\ holder = [l \in Threads |-> 0]
    /\ InitCalls({}, 0)
    /\ nchecks = 0
    /\ idx = 1
    /\ rpc = "none"
    /\ check = NoCheck
    /\ auth_override = <<>>
    /\ resp = NoResp
    /\ results = <<>>
    /\ returned = <<>>
    /\ failure = NoFailure
    /\ sent = <<>>
    /\ evaluated = <<>>
    /\ trail = <<>>
    /\ api_key \in IF mode = "api_key" THEN {"", "k"} ELSE {""}
    /\ api_key_header \in IF mode = "api_key" THEN {"", "X-API-Key"} ELSE {"X-API-Key"}
    /\ api_key_query_param \in IF mode = "api_key" THEN {"", "api_key"} ELSE {""}
    /\ apc = "start"
    /\ arg_url \in Urls
    /\ arg_headers \in HeaderDicts
    /\ out_url = Url(<<>>)
    /\ out_headers = NoHeaders
    /\ InitNoAssert
    /\ InitNoRest

\* d[name] = v on a dict kept as the sequence of its items: the value of an
\* existing key is replaced where it stands, a new key goes to the end.
DictSet(d, name, v) ==
    IF \E i \in DOMAIN d : d[i][1] = name
    THEN [i \in DOMAIN d |-> IF d[i][1] = name THEN <<name, v>> ELSE d[i]]
    ELSE Append(d, <<name, v>>)

\* auth.py:77: dict(parse_qsl(query, keep_blank_values=True)).
RECURSIVE ToDict(_)
ToDict(q) ==
    IF q = <<>> THEN <<>>
    ELSE LET last == q[Len(q)] IN DictSet(ToDict(SubSeq(q, 1, Len(q) - 1)), last[1], last[2])

\* auth.py:70-79
apply_url(u) ==
    IF mode # "api_key" THEN u
    ELSE IF api_key = "" \/ api_key_query_param = "" THEN u
    ELSE [u EXCEPT !.query = DictSet(ToDict(u.query), api_key_query_param, api_key)]

ApplyUrl ==
    /\ apc = "start"
    /\ out_url' = apply_url(arg_url)
    /\ apc' = "url"
    /\ UNCHANGED <<authVars, callVars, runVars, assertVars, restVars, api_key, api_key_header,
                   api_key_query_param, arg_url, arg_headers, out_headers>>

\* headers[name] = v on a copy of the dict.
Put(h, name, v) == [n \in DOMAIN h \cup {name} |-> IF n = name THEN v ELSE h[n]]

api_key_headers_Only(h) ==
    IF api_key # "" /\ api_key_header # ""
    THEN [n \in {api_key_header} |-> Text(api_key)]
    ELSE h

\* auth.py:57-60
api_key_headers(h) ==
    IF api_key # "" /\ api_key_header # ""
    THEN Put(h, api_key_header, Text(api_key))
    ELSE h

\* auth.py:62-66, g being what get_bearer_token returned.
bearer_headers(h, g) ==
    IF g.ret # None THEN Put(h, "Authorization", Bearer(g.ret)) ELSE h

\* auth.py:54-68
ApplyHeaders ==
    /\ apc = "url"
    /\ \E ans \in IF NeedsExchange("default") THEN TokenAnswers ELSE {NoExchange} :
         LET g == apply_headers("default", ExchangeOutcome(ans)) IN
         /\ exchange' = IF g.err = "config" THEN NotAsked ELSE ans
         /\ token_calls' = token_calls + g.posts
         /\ issued' = issued + g.issued
         /\ cached_token' = g.cache
         /\ lock' = IF UsesLock("default") /\ lock = None THEN nlocks + 1 ELSE lock
         /\ nlocks' = IF UsesLock("default") /\ lock = None THEN nlocks + 1 ELSE nlocks
         /\ IF g.err # "none"
            THEN apc' = "raised" /\ out_headers' = out_headers
            ELSE /\ apc' = "done"
                 /\ out_headers' = CASE mode = "api_key" -> api_key_headers(arg_headers)
                                      [] mode = "oauth2" -> bearer_headers(arg_headers, g)
                                      [] OTHER -> arg_headers
    /\ UNCHANGED <<now, horizon, expires_in, bearer_token, oauth2_token_url, client_creds,
                   holder, callVars, runVars, assertVars, restVars, api_key, api_key_header,
                   api_key_query_param, arg_url, arg_headers, out_url>>

NextApply ==
    \/ ApplyUrl
    \/ ApplyHeaders

SpecApply == InitApply /\ [][NextApply]_vars

\* ==================================================== _apply_assertions
\* An AuthConfig that nobody uses and no run.
InitIdle ==
    /\ now = 0
    /\ horizon = 0
    /\ expires_in = Absent
    /\ token_calls = 0
    /\ issued = 0
    /\ exchange = NoExchange
    /\ bearer_token = None
    /\ oauth2_token_url = FALSE
    /\ client_creds = FALSE
    /\ cached_token = <<>>
    /\ lock = None
    /\ nlocks = 0
    /\ holder = [l \in Threads |-> 0]
    /\ InitCalls({}, 0)
    /\ InitNoRun
    /\ InitNoApply

\* api_contract.py:227-229: a JSON object or array and a non-empty list.
InitAssert ==
    /\ InitIdle
    /\ InitNoRest
    /\ payload \in Payloads
    /\ assertions \in AssertionLists(MaxAsserts) \ {<<>>}
    /\ ai = 1
    /\ astate = "running"
    /\ aerr = NoError
    /\ resolved = <<>>

\* dict.get(part): the value of the key, None without the key.
DictGet(obj, part) ==
    IF \E kv \in obj.kids : kv[1] = part
    THEN (CHOOSE kv \in obj.kids : kv[1] = part)[2]
    ELSE JNull

\* api_contract.py:37-44
RECURSIVE json_path_get(_, _)
json_path_get(cur, parts) ==
    IF parts = <<>> THEN cur
    ELSE IF cur.t = "obj" THEN json_path_get(DictGet(cur, Head(parts)), Tail(parts))
    ELSE JNull

\* Python's == between two decoded values (api_contract.py:62, 70): a bool is a
\* number (True == 1, False == 0), dicts are equal with the same keys and equal
\* values, lists with the same length and equal items, all else by type and
\* content.
RECURSIVE PyEq(_, _)
PyEq(x, y) ==
    IF x.t \in {"bool", "num"} /\ y.t \in {"bool", "num"} THEN x.v = y.v
    ELSE IF x.t # y.t THEN FALSE
    ELSE IF x.t \in {"obj", "list"}
         THEN /\ {kv[1] : kv \in x.kids} = {kv[1] : kv \in y.kids}
              /\ \A kx \in x.kids, ky \in y.kids : kx[1] = ky[1] => PyEq(kx[2], ky[2])
    ELSE x.v = y.v

KnownTypes == {"json_path_exists", "json_path_equals", "json_path_one_of", "json_path_range"}

\* float(x) of a number or a bool: the integers of the model are far below
\* 2^53 and are floats exactly, False is 0.0 and True 1.0.
Float(x) == x.v
\* float() takes a number or a bool; "" and the other strings of the model, a
\* list, a dict and None make it raise.
IsFloatable(x) == x.t \in {"bool", "num"}
\* api_contract.py:78, 80: the key is there and its value is not None.
Given(bound) == bound # <<>> /\ bound # <<JNull>>

RangeOutcome_Exclusive(value, a) ==
    IF value = JNull THEN "failed"
    ELSE IF ~IsFloatable(value) THEN "not a number"
    ELSE IF Given(a.min) /\ ~IsFloatable(a.min[1]) THEN "not a number"
    ELSE IF Given(a.min) /\ ~(Float(value) > Float(a.min[1])) THEN "below min"
    ELSE IF Given(a.max) /\ ~IsFloatable(a.max[1]) THEN "not a number"
    ELSE IF Given(a.max) /\ ~(Float(value) < Float(a.max[1])) THEN "above max"
    ELSE "pass"

\* api_contract.py:76-81
RangeOutcome(value, a) ==
    IF value = JNull THEN "failed"
    ELSE IF ~IsFloatable(value) THEN "not a number"
    ELSE IF Given(a.min) /\ ~IsFloatable(a.min[1]) THEN "not a number"
    ELSE IF Given(a.min) /\ ~(Float(value) >= Float(a.min[1])) THEN "below min"
    ELSE IF Given(a.max) /\ ~IsFloatable(a.max[1]) THEN "not a number"
    ELSE IF Given(a.max) /\ ~(Float(value) <= Float(a.max[1])) THEN "above max"
    ELSE "pass"

AssertionOutcome_SkipUnknown(data, a) ==
    LET value == json_path_get(data, a.path) IN
    IF a.type \notin KnownTypes THEN "pass"
    ELSE IF a.path = <<>> THEN "requires path"
    ELSE IF a.type = "json_path_exists"
         THEN IF value # JNull THEN "pass" ELSE "failed"
    ELSE IF a.type = "json_path_equals"
         THEN IF PyEq(value, a.expected) THEN "pass" ELSE "failed"
    ELSE IF a.type = "json_path_one_of"
         THEN IF a.options # "list" \/ a.any_of = <<>> THEN "requires any_of"
              ELSE IF \E i \in DOMAIN a.any_of : PyEq(value, a.any_of[i])
                   THEN "pass" ELSE "failed"
    ELSE RangeOutcome(value, a)

\* api_contract.py:49-84: one pass of the loop body, "pass" for continue.
AssertionOutcome(data, a) ==
    LET value == json_path_get(data, a.path) IN
    IF a.type \notin KnownTypes THEN "unknown type"
    ELSE IF a.path = <<>> THEN "requires path"
    ELSE IF a.type = "json_path_exists"
         THEN IF value # JNull THEN "pass" ELSE "failed"
    ELSE IF a.type = "json_path_equals"
         THEN IF PyEq(value, a.expected) THEN "pass" ELSE "failed"
    ELSE IF a.type = "json_path_one_of"
         THEN IF a.options # "list" \/ a.any_of = <<>> THEN "requires any_of"
              ELSE IF \E i \in DOMAIN a.any_of : PyEq(value, a.any_of[i])
                   THEN "pass" ELSE "failed"
    ELSE RangeOutcome(value, a)

\* The actual value in the message of a failed assertion (api_contract.py:62,
\* 70, 79, 81): the resolved value, for a range the float made of it.
Got(data, a, out) ==
    IF out \in {"below min", "above max"} THEN <<JNum(Float(json_path_get(data, a.path)))>>
    ELSE IF out = "failed" /\ a.type \in {"json_path_equals", "json_path_one_of"}
         THEN <<json_path_get(data, a.path)>>
    ELSE <<>>

\* api_contract.py:48-84: the loop body for assertion ai.
EvalAssertion ==
    /\ astate = "running"
    /\ ai <= Len(assertions)
    /\ LET a == assertions[ai]
           out == AssertionOutcome(payload, a) IN
       /\ resolved' = IF out \in {"unknown type", "requires path", "requires any_of"}
                      THEN <<>> ELSE <<json_path_get(payload, a.path)>>
       /\ IF out = "pass"
          THEN ai' = ai + 1 /\ UNCHANGED <<astate, aerr>>
          ELSE /\ astate' = "raised"
               /\ aerr' = [index |-> ai, kind |-> out, got |-> Got(payload, a, out)]
               /\ ai' = ai
    /\ UNCHANGED <<authVars, callVars, runVars, applyVars, restVars, payload, assertions>>

\* The loop is over: _apply_assertions returns.
AssertionsPass ==
    /\ astate = "running"
    /\ ai > Len(assertions)
    /\ astate' = "passed"
    /\ UNCHANGED <<authVars, callVars, runVars, applyVars, restVars, payload, assertions,
                   ai, aerr, resolved>>

NextAssert ==
    \/ EvalAssertion
    \/ AssertionsPass

SpecAssert == InitAssert /\ [][NextAssert]_vars

\* ---- one json_path_range assertion on a payload {"score": x}
RangeValues == {JNum(n) : n \in 0..MaxNum} \cup {JNull, JStr(0), JBool(TRUE)}
RangePayloads == {JObj({<<"score", x>>}) : x \in RangeValues}
RangePaths == {<<"score">>, <<"other">>}
Bounds == {<<>>, <<JNull>>} \cup {<<JNum(n)>> : n \in 0..MaxNum}
InitRange ==
    /\ InitIdle
    /\ InitNoRest
    /\ payload \in RangePayloads
    /\ assertions \in {<<RangeAssertion(p, lo, hi)>> : p \in RangePaths, lo \in Bounds,
                                                       hi \in Bounds}
    /\ ai = 1
    /\ astate = "running"
    /\ aerr = NoError
    /\ resolved = <<>>

SpecRange == InitRange /\ [][NextAssert]_vars

\* ---- one json_path_equals or json_path_one_of assertion on a payload {"a": x}
EqValues ==
    {JNull, JBool(TRUE), JNum(0), JNum(1), JStr(0), JStr(1), JObj({}),
     JObj({<<"k", JNum(1)>>}), JObj({<<"k", JBool(TRUE)>>}),
     JList(<<>>), JList(<<JNum(1)>>), JList(<<JNum(1), JNum(0)>>)}
RECURSIVE ItemLists(_)
ItemLists(n) ==
    IF n = 0 THEN {<<>>}
    ELSE ItemLists(n - 1) \cup
         {Append(l, x) : l \in {m \in ItemLists(n - 1) : Len(m) = n - 1}, x \in EqValues}
EqAssertions ==
    {Assertion("json_path_equals", <<"a">>, e, <<>>) : e \in EqValues}
    \cup {OneOfAssertion(<<"a">>, "list", items) : items \in ItemLists(MaxItems)}
    \cup {OneOfAssertion(<<"a">>, k, <<>>) : k \in {"missing", "other"}}
InitEquals ==
    /\ InitIdle
    /\ InitNoRest
    /\ payload \in {JObj({<<"a", x>>}) : x \in EqValues}
    /\ assertions \in {<<a>> : a \in EqAssertions}
    /\ ai = 1
    /\ astate = "running"
    /\ aerr = NoError
    /\ resolved = <<>>

SpecEquals == InitEquals /\ [][NextAssert]_vars

\* ============================================ _apply_expected_headers
\* A header value and a declared string are texts: sequences of characters.
IsPrefix(p, t) == Len(p) <= Len(t) /\ SubSeq(t, 1, Len(p)) = p
IsSuffix(p, t) == Len(p) <= Len(t) /\ SubSeq(t, Len(t) - Len(p) + 1, Len(t)) = p
\* needle in actual
IsSubstring(p, t) == \E i \in 0..(Len(t) - Len(p)) : SubSeq(t, i + 1, i + Len(p)) = p

\* What a sub-rule declares: a string or a number.
StrOp(txt) == [t |-> "str", s |-> txt, v |-> 0]
NumOp(n) == [t |-> "num", s |-> <<>>, v |-> n]
Digit(n) == <<"0", "1", "2", "3", "4", "5", "6", "7", "8", "9">>[n + 1]
\* str(x): the string itself, the digit of a number below ten.
PyStr(x) == IF x.t = "str" THEN x.s ELSE <<Digit(x.v)>>

\* A regular expression of the form lit, ^lit, lit$ or ^lit$ with lit free of
\* special characters.
Pattern(start, lit, end) == [start |-> start, lit |-> lit, end |-> end]
\* re.search(rx, actual)
Search(rx, txt) ==
    IF rx.start /\ rx.end THEN txt = rx.lit
    ELSE IF rx.start THEN IsPrefix(rx.lit, txt)
    ELSE IF rx.end THEN IsSuffix(rx.lit, txt)
    ELSE IsSubstring(rx.lit, txt)

\* A rule: a string, true, a mapping (exists is "absent", "true" or "false",
\* the other keys <<>> or <<what is declared>>) or anything else.
StrRule(txt) ==
    [shape |-> "str", value |-> txt, exists |-> "absent", equals |-> <<>>, contains |-> <<>>,
     regex |-> <<>>]
TrueRule ==
    [shape |-> "true", value |-> <<>>, exists |-> "absent", equals |-> <<>>, contains |-> <<>>,
     regex |-> <<>>]
DictRule(ex, eq, co, rx) ==
    [shape |-> "dict", value |-> <<>>, exists |-> ex, equals |-> eq, contains |-> co,
     regex |-> rx]
\* false, null, a number, a list
OtherRule ==
    [shape |-> "other", value |-> <<>>, exists |-> "absent", equals |-> <<>>, contains |-> <<>>,
     regex |-> <<>>]

HeaderOutcome_FullMatch(actual, rule) ==
    IF rule.shape = "str"
    THEN IF actual = <<>> THEN "missing"
         ELSE IF actual[1] = rule.value THEN "pass" ELSE "not equal"
    ELSE IF rule.shape = "true"
    THEN IF actual = <<>> THEN "missing" ELSE "pass"
    ELSE IF rule.shape = "dict"
    THEN IF rule.exists = "true" /\ actual = <<>> THEN "missing"
         ELSE IF rule.equals # <<>> /\ actual = <<>> THEN "missing"
         ELSE IF rule.equals # <<>> /\ actual[1] # PyStr(rule.equals[1]) THEN "not equal"
         ELSE IF rule.contains # <<>> /\ actual = <<>> THEN "missing"
         ELSE IF rule.contains # <<>> /\ ~IsSubstring(PyStr(rule.contains[1]), actual[1])
              THEN "not contained"
         ELSE IF rule.regex # <<>> /\ actual = <<>> THEN "missing"
         ELSE IF rule.regex # <<>> /\ actual[1] # rule.regex[1].lit THEN "no match"
         ELSE "pass"
    ELSE "unsupported"

\* api_contract.py:92-123: one pass of the loop body, "pass" for continue.
HeaderOutcome(actual, rule) ==
    IF rule.shape = "str"
    THEN IF actual = <<>> THEN "missing"
         ELSE IF actual[1] = rule.value THEN "pass" ELSE "not equal"
    ELSE IF rule.shape = "true"
    THEN IF actual = <<>> THEN "missing" ELSE "pass"
    ELSE IF rule.shape = "dict"
    THEN IF rule.exists = "true" /\ actual = <<>> THEN "missing"
         ELSE IF rule.equals # <<>> /\ actual = <<>> THEN "missing"
         ELSE IF rule.equals # <<>> /\ actual[1] # PyStr(rule.equals[1]) THEN "not equal"
         ELSE IF rule.contains # <<>> /\ actual = <<>> THEN "missing"
         ELSE IF rule.contains # <<>> /\ ~IsSubstring(PyStr(rule.contains[1]), actual[1])
              THEN "not contained"
         ELSE IF rule.regex # <<>> /\ actual = <<>> THEN "missing"
         ELSE IF rule.regex # <<>> /\ ~Search(rule.regex[1], actual[1]) THEN "no match"
         ELSE "pass"
    ELSE "unsupported"

RuleNames == <<"Content-Type", "ETag", "X-Request-Id">>
HeaderTexts == {<<>>, <<"a", "b">>, <<"a", "b", "c">>, <<"5">>}
HeaderOptions == {<<>>} \cup {<<txt>> : txt \in HeaderTexts}
RespHeaders == [{RuleNames[i] : i \in 1..MaxRules} -> HeaderOptions]
DictRules ==
    {DictRule(ex, eq, co, rx) :
        ex \in {"absent", "true", "false"},
        eq \in {<<>>, <<StrOp(<<"a", "b">>)>>, <<NumOp(5)>>},
        co \in {<<>>, <<StrOp(<<"b">>)>>, <<StrOp(<<>>)>>},
        rx \in {<<>>, <<Pattern(TRUE, <<"a", "b">>, FALSE)>>, <<Pattern(FALSE, <<"b">>, TRUE)>>}}
Rules == {StrRule(<<"a", "b">>), StrRule(<<>>), TrueRule, OtherRule} \cup DictRules
SimpleRules ==
    {StrRule(<<"a", "b">>), TrueRule, OtherRule, DictRule("absent", <<>>, <<StrOp(<<"b">>)>>, <<>>)}
RECURSIVE SimpleLists(_)
SimpleLists(n) ==
    IF n = 0 THEN {<<>>}
    ELSE {Append(l, r) : l \in SimpleLists(n - 1), r \in SimpleRules}
\* One rule of any kind, or several of the simple ones.
RuleLists == {<<r>> : r \in Rules} \cup UNION {SimpleLists(n) : n \in 2..MaxRules}
ExpectedHeaders == {[i \in DOMAIN l |-> <<RuleNames[i], l[i]>>] : l \in RuleLists}

\* api_contract.py:200-202, 218-219: a non-empty mapping of rules.
InitHeaders ==
    /\ InitIdle
    /\ InitNoAssert
    /\ InitNoSchema
    /\ InitNoTail
    /\ InitNoReq
    /\ resp_headers \in RespHeaders
    /\ expected_headers \in ExpectedHeaders
    /\ hidx = 1
    /\ hstate = "running"
    /\ herr = NoHeaderError

\* api_contract.py:88-123: the loop body for rule hidx.
CheckHeader ==
    /\ hstate = "running"
    /\ hidx <= Len(expected_headers)
    /\ LET name == expected_headers[hidx][1]
           rule == expected_headers[hidx][2]
           out == HeaderOutcome(resp_headers[name], rule) IN
       IF out = "pass"
       THEN hidx' = hidx + 1 /\ UNCHANGED <<hstate, herr>>
       ELSE /\ hstate' = "raised"
            /\ herr' = [index |-> hidx, name |-> name, kind |-> out]
            /\ hidx' = hidx
    /\ UNCHANGED <<authVars, callVars, runVars, applyVars, assertVars, schemaVars, tailVars,
                   reqVars, resp_headers, expected_headers>>

\* The loop is over: _apply_expected_headers returns.
HeadersPass ==
    /\ hstate = "running"
    /\ hidx > Len(expected_headers)
    /\ hstate' = "passed"
    /\ UNCHANGED <<authVars, callVars, runVars, applyVars, assertVars, schemaVars, tailVars,
                   reqVars, resp_headers, expected_headers, hidx, herr>>

NextHeaders ==
    \/ CheckHeader
    \/ HeadersPass

SpecHeaders == InitHeaders /\ [][NextHeaders]_vars

\* ==================================================== validate_schema
\* A violation: its location in the payload (e.path, here a path of list
\* indexes) and its message.
Violation(path, message) == [path |-> path, message |-> message]
\* Python's < on two deques: the first differing element decides, a proper
\* prefix is smaller.
RECURSIVE PathLess(_, _)
PathLess(p, q) ==
    IF q = <<>> THEN FALSE
    ELSE IF p = <<>> THEN TRUE
    ELSE IF Head(p) # Head(q) THEN Head(p) < Head(q)
    ELSE PathLess(Tail(p), Tail(q))

\* sorted() is stable: e goes behind everything that is not greater than it.
RECURSIVE Insert(_, _)
Insert(srt, e) ==
    IF srt = <<>> THEN <<e>>
    ELSE IF PathLess(e.path, Head(srt).path) THEN <<e>> \o srt
    ELSE <<Head(srt)>> \o Insert(Tail(srt), e)

\* schema_validation.py:23: sorted(..., key=lambda e: e.path)
RECURSIVE SortByPath(_)
SortByPath(errs) ==
    IF errs = <<>> THEN <<>>
    ELSE Insert(SortByPath(SubSeq(errs, 1, Len(errs) - 1)), errs[Len(errs)])

Take_All(sq, n) == sq

\* errors[:n]
Take(sq, n) == SubSeq(sq, 1, IF Len(sq) < n THEN Len(sq) ELSE n)

\* lru_cache around load_json_schema (schema_validation.py:11-18): a hit makes
\* the path the most recently used; a miss loads and compiles, and with Maxsize
\* paths held the least recently used one is dropped.
InCache(r) == \E i \in DOMAIN schema_cache : schema_cache[i] = r
Without(sq, r) == SelectSeq(sq, LAMBDA x : x # r)
Cached(r) ==
    IF InCache(r) THEN Append(Without(schema_cache, r), r)
    ELSE IF Len(schema_cache) = Maxsize THEN Append(Tail(schema_cache), r)
    ELSE Append(schema_cache, r)

\* schema_validation.py:21-26, with load_json_schema 11-18
validate_schema(r, errs) ==
    IF r = MissingRef
    THEN /\ sresult' = [ref |-> r, state |-> "not found", reported |-> <<>>]
         /\ violations' = <<>>
         /\ UNCHANGED <<schema_cache, compiled>>
    ELSE /\ schema_cache' = Cached(r)
         /\ compiled' = IF InCache(r) THEN compiled ELSE [compiled EXCEPT ![r] = @ + 1]
         /\ violations' = errs
         /\ sresult' = IF errs = <<>>
                       THEN [ref |-> r, state |-> "returned", reported |-> <<>>]
                       ELSE [ref |-> r, state |-> "raised",
                             reported |-> Take(SortByPath(errs), Reported)]

\* One call of validate_schema with a path of refs, on a payload for which
\* iter_errors yields one of viols.
CallValidate(refs, viols) ==
    /\ \A x \in SchemaRefs : compiled[x] < MaxCompiles
    /\ \E r \in refs, errs \in viols : validate_schema(r, errs)
    /\ UNCHANGED <<authVars, callVars, runVars, applyVars, assertVars, headerVars, tailVars,
                   reqVars>>

InitSchema ==
    /\ InitIdle
    /\ InitNoAssert
    /\ InitNoHeaders
    /\ InitNoSchema
    /\ InitNoTail
    /\ InitNoReq

\* ---- many calls: the file that does not exist, the first path, or the first
\* path not used before; a payload that is valid or has one violation.
WasCompiled(r) == compiled[r] > 0
FreshRefs == {r \in 1..MaxRefs : ~WasCompiled(r) /\ \A x \in 1..(r - 1) : WasCompiled(x)}
FewViolations == {<<>>, <<Violation(<<>>, 1)>>}
NextCache == CallValidate({MissingRef, 1} \cup FreshRefs, FewViolations)
SpecCache == InitSchema /\ [][NextCache]_vars

\* ---- one call on an existing schema with up to MaxViolations violations, the
\* i-th one with message i.
ViolationPaths == {<<>>, <<0>>, <<1>>, <<0, 1>>}
RECURSIVE ViolationLists(_)
ViolationLists(n) ==
    IF n = 0 THEN {<<>>}
    ELSE ViolationLists(n - 1) \cup
         {Append(l, Violation(p, n)) : l \in {m \in ViolationLists(n - 1) : Len(m) = n - 1},
                                       p \in ViolationPaths}
NextValidate == sresult.state = "none" /\ CallValidate({1}, ViolationLists(MaxViolations))
SpecValidate == InitSchema /\ [][NextValidate]_vars

\* ============================================ from the body to the result
\* The bodies of the model and json.loads of each: <<>> where it raises.
Contents == {"", " ", "x", "null", "0", "\"\"", "{}", "[]", "{\"a\": 0}"}
Parse(txt) ==
    CASE txt = "null" -> <<JNull>>
      [] txt = "0" -> <<JNum(0)>>
      [] txt = "\"\"" -> <<JStr(0)>>
      [] txt = "{}" -> <<JObj({})>>
      [] txt = "[]" -> <<JList(<<>>)>>
      [] txt = "{\"a\": 0}" -> <<JObj({<<"a", JNum(0)>>})>>
      [] OTHER -> <<>>

body_json_Always(txt) == [called |-> TRUE, value |-> Parse(txt)]

\* api_contract.py:222: resp.json() if resp.content else None
body_json(txt) ==
    IF txt = "" THEN [called |-> FALSE, value |-> <<JNull>>]
    ELSE [called |-> TRUE, value |-> Parse(txt)]

TailAssertions ==
    {Assertion("json_path_exists", <<"a">>, JNull, <<>>),
     Assertion("json_path_equals", <<"a">>, JNull, <<>>),
     Assertion("json_path_matches", <<"a">>, JNull, <<>>)}
RECURSIVE TailLists(_)
TailLists(n) ==
    IF n = 0 THEN {<<>>}
    ELSE TailLists(n - 1) \cup
         {Append(l, a) : l \in {m \in TailLists(n - 1) : Len(m) = n - 1}, a \in TailAssertions}

\* A response whose status and headers were accepted (api_contract.py:213-219).
InitTail ==
    /\ InitIdle
    /\ InitNoHeaders
    /\ InitNoSchema
    /\ InitNoReq
    /\ content \in Contents
    /\ schema_declared \in BOOLEAN
    /\ assertions \in TailLists(MaxAsserts)
    /\ tpc = "decode"
    /\ decoded = FALSE
    /\ tfail = "none"
    /\ appended = <<>>
    /\ payload = JNull
    /\ ai = 1
    /\ astate = "none"
    /\ aerr = NoError
    /\ resolved = <<>>

\* api_contract.py:222
Decode ==
    /\ tpc = "decode"
    /\ LET j == body_json(content) IN
       /\ decoded' = j.called
       /\ IF j.value = <<>>
          THEN tpc' = "raised" /\ tfail' = "decode" /\ payload' = payload
          ELSE tpc' = "schema" /\ tfail' = tfail /\ payload' = j.value[1]
    /\ UNCHANGED <<authVars, callVars, runVars, applyVars, headerVars, schemaVars, reqVars,
                   assertions, ai, astate, aerr, resolved, content, schema_declared, appended>>

\* api_contract.py:223-224
ValidatePayload ==
    /\ tpc = "schema"
    /\ IF schema_declared
       THEN \E errs \in FewViolations :
              /\ validate_schema(1, errs)
              /\ IF errs = <<>>
                 THEN tpc' = "assert" /\ tfail' = tfail
                 ELSE tpc' = "raised" /\ tfail' = "schema"
       ELSE tpc' = "assert" /\ tfail' = tfail /\ UNCHANGED schemaVars
    /\ UNCHANGED <<authVars, callVars, runVars, applyVars, assertVars, headerVars, reqVars,
                   content, schema_declared, decoded, appended>>

\* api_contract.py:227-229, up to the call of _apply_assertions
RequirePayload ==
    /\ tpc = "assert"
    /\ IF assertions = <<>>
       THEN tpc' = "append" /\ UNCHANGED <<tfail, astate>>
       ELSE IF payload.t \in {"obj", "list"}
       THEN tpc' = "asserting" /\ astate' = "running" /\ tfail' = tfail
       ELSE tpc' = "raised" /\ tfail' = "payload" /\ astate' = astate
    /\ UNCHANGED <<authVars, callVars, runVars, applyVars, headerVars, schemaVars, reqVars,
                   payload, assertions, ai, aerr, resolved, content, schema_declared, decoded,
                   appended>>

\* api_contract.py:231
AppendResult ==
    /\ tpc = "append" \/ (tpc = "asserting" /\ astate = "passed")
    /\ appended' = <<payload>>
    /\ tpc' = "done"
    /\ UNCHANGED <<authVars, callVars, runVars, applyVars, assertVars, headerVars, schemaVars,
                   reqVars, content, schema_declared, decoded, tfail>>

NextTail ==
    \/ Decode
    \/ ValidatePayload
    \/ RequirePayload
    \/ EvalAssertion
    \/ AssertionsPass
    \/ AppendResult

SpecTail == InitTail /\ [][NextTail]_vars

\* ================================ run_contract_checks: the request of a check
\* api_contract.py:146-153: the header map of the run, with the Authorization
\* header of the legacy token when there is one.
BaseHeaders(tok) ==
    LET accept == [n \in {"Accept"} |-> Text("application/json")] IN
    IF tok # None THEN Put(accept, "Authorization", Bearer(tok)) ELSE accept

load_auth_config_from_env_All(m, env) ==
    [api_key |-> env.SUT_API_KEY,
     api_key_header |-> "X-API-Key",
     api_key_query_param |-> env.SUT_API_KEY_QUERY_PARAM,
     bearer_token |-> env.SUT_OAUTH_TOKEN,
     oauth2_token_url |-> env.SUT_OAUTH_TOKEN_URL,
     client_creds |-> env.SUT_OAUTH_CLIENT]

\* auth.py:104-137: the credential fields of default_auth in mode m; the fields
\* of the other modes keep the defaults of the dataclass (auth.py:32-40).
load_auth_config_from_env(m, env) ==
    [api_key |-> IF m = "api_key" THEN env.SUT_API_KEY ELSE "",
     api_key_header |-> "X-API-Key",
     api_key_query_param |-> IF m = "api_key" THEN env.SUT_API_KEY_QUERY_PARAM ELSE "",
     bearer_token |-> IF m = "oauth2" THEN env.SUT_OAUTH_TOKEN ELSE None,
     oauth2_token_url |-> m = "oauth2" /\ env.SUT_OAUTH_TOKEN_URL,
     client_creds |-> m = "oauth2" /\ env.SUT_OAUTH_CLIENT]

\* The value a check declares for an extra header: a string without variable
\* reference, a reference to the variable TOKEN ($TOKEN, ${TOKEN} or %TOKEN%),
\* or a number.
Lit(txt) == [kind |-> "str", s |-> txt, n |-> 0]
Ref == [kind |-> "ref", s |-> "TOKEN", n |-> 0]
Num(k) == [kind |-> "num", s |-> "", n |-> k]

\* api_contract.py:26-34 followed by str() (208): a value that is no string is
\* returned as it is, a reference is replaced by os.getenv(name) or "".
expand_env_vars(v, env) ==
    CASE v.kind = "num" -> Digit(v.n)
      [] v.kind = "ref" -> env.TOKEN
      [] OTHER -> v.s

\* check.headers of a check.
ExtraHeaders ==
    {NoHeaders,
     [n \in {"Authorization"} |-> Ref],
     [n \in {"X-API-Key"} |-> Num(7)],
     [n \in {"X-Trace"} |-> Lit("x")]}

\* auth.py:55: headers = dict(headers), a new dict with the items of the argument.
Copy_Alias(h) == [alias |-> TRUE, items |-> h]

Copy(h) == [alias |-> FALSE, items |-> h]

Update_Keep(h, extra, env) ==
    [n \in DOMAIN h \cup DOMAIN extra |->
        IF n \in DOMAIN h THEN h[n] ELSE Text(expand_env_vars(extra[n], env))]

\* api_contract.py:208: headers.update({str(k): str(_expand_env_vars(v)) ...}).
Update(h, extra, env) ==
    [n \in DOMAIN h \cup DOMAIN extra |->
        IF n \in DOMAIN extra THEN Text(expand_env_vars(extra[n], env)) ELSE h[n]]

\* api_contract.py:195, auth.py:70-79 on the AuthConfig of a check with override a,
\* whose api_key fields are those of default_auth (177-182).
auth_url(a, u) ==
    IF EffMode(a) = "api_key" /\ api_key # "" /\ api_key_query_param # ""
    THEN [u EXCEPT !.query = DictSet(ToDict(u.query), api_key_query_param, api_key)]
    ELSE u

\* api_contract.py:204, auth.py:56-68 on that AuthConfig, g being the answer of
\* its get_bearer_token.
auth_headers(a, h, g) ==
    CASE EffMode(a) = "api_key" -> api_key_headers(h)
      [] EffMode(a) = "oauth2" -> bearer_headers(h, g)
      [] OTHER -> h

\* The header names auth.py:59 and 65 assign.
AuthNames(a, g) ==
    CASE EffMode(a) = "api_key" /\ api_key # "" /\ api_key_header # "" -> {api_key_header}
      [] EffMode(a) = "oauth2" /\ g.ret # None -> {"Authorization"}
      [] OTHER -> {}

\* The request of a check as session.request gets it (210): after_auth is the
\* header map apply_headers returned, posts the token requests made for it.
Request(a, extra, url, after, names, hs, posts) ==
    [auth |-> a, extra |-> extra, url |-> url, after_auth |-> after, auth_names |-> names,
     headers |-> hs, posts |-> posts]

\* Environments: with and without legacy token, api key (with the name of its
\* query parameter) and value of TOKEN; no oauth2 variable, a static token, a
\* token url with and without client id and secret.
Environs ==
    {Environ(tok, api[1], api[2], oauth[1], oauth[2], oauth[3], var) :
        tok \in {None, LegacyToken}, api \in {<<"", "">>, <<"k", "api_key">>},
        oauth \in {<<None, FALSE, FALSE>>, <<StaticToken, FALSE, FALSE>>,
                   <<None, TRUE, TRUE>>, <<None, TRUE, FALSE>>},
        var \in {"", "t"}}

\* api_contract.py:141-161: the run before its first check.
InitRequest ==
    /\ now = 0
    /\ horizon = 0
    /\ token_calls = 0
    /\ issued = 0
    /\ exchange = NoExchange
    /\ expires_in = Absent
    /\ cached_token = <<>>
    /\ lock = None
    /\ nlocks = 0
    /\ holder = [l \in Threads |-> 0]
    /\ InitCalls({}, 0)
    /\ mode \in {"none", "api_key", "oauth2"}
    /\ environ \in Environs
    /\ LET auth == load_auth_config_from_env(mode, environ) IN
          /\ api_key = auth.api_key
          /\ api_key_header = auth.api_key_header
          /\ api_key_query_param = auth.api_key_query_param
          /\ bearer_token = auth.bearer_token
          /\ oauth2_token_url = auth.oauth2_token_url
          /\ client_creds = auth.client_creds
    /\ nchecks = 0
    /\ idx = 1
    /\ rpc = "none"
    /\ check = NoCheck
    /\ auth_override = <<>>
    /\ resp = NoResp
    /\ results = <<>>
    /\ returned = <<>>
    /\ failure = NoFailure
    /\ sent = <<>>
    /\ evaluated = <<>>
    /\ trail = <<>>
    /\ apc = "none"
    /\ arg_url = Url(<<>>)
    /\ arg_headers = NoHeaders
    /\ out_url = Url(<<>>)
    /\ out_headers = NoHeaders
    /\ InitNoAssert
    /\ InitNoHeaders
    /\ InitNoSchema
    /\ InitNoTail
    /\ base_headers = BaseHeaders(environ.SUT_TOKEN)
    /\ built = <<>>
    /\ attempt = NoAttempt
    /\ rq_state = "loop"

\* api_contract.py:171-210: one check from its auth override to session.request.
\* apply_headers raises when the token exchange fails; the extra headers are a
\* mapping.
BuildRequest ==
    /\ rq_state = "loop"
    /\ Len(built) < MaxBuilt
    /\ \E a \in {"default", "none", "api_key", "oauth2"}, extra \in ExtraHeaders :
       \E ans \in IF NeedsExchange(a) THEN {Answer(200, "token"), TimedOut} ELSE {NoExchange} :
         LET url == auth_url(a, Url(<<>>))
             g == apply_headers(a, ExchangeOutcome(ans))
             new == Copy(base_headers)
             after == auth_headers(a, new.items, g)
             hs == Update(after, extra, environ)
         IN
         /\ exchange' = IF g.err = "config" THEN NotAsked ELSE ans
         /\ token_calls' = token_calls + g.posts
         /\ issued' = issued + g.issued
         /\ cached_token' = IF a = "default" THEN g.cache ELSE cached_token
         /\ lock' = IF UsesLock(a) /\ lock = None THEN nlocks + 1 ELSE lock
         /\ nlocks' = IF UsesLock(a) /\ lock = None THEN nlocks + 1 ELSE nlocks
         /\ attempt' = [auth |-> a, err |-> g.err]
         /\ IF g.err # "none"
            THEN /\ rq_state' = "raised"
                 /\ UNCHANGED <<built, base_headers>>
            ELSE /\ rq_state' = "loop"
                 /\ built' = Append(built, Request(a, extra, url, after, AuthNames(a, g), hs,
                                                   g.posts))
                 /\ base_headers' = IF new.alias THEN hs ELSE base_headers
    /\ UNCHANGED <<now, horizon, expires_in, bearer_token, oauth2_token_url, client_creds,
                   holder, callVars, runVars, applyVars, assertVars, headerVars, schemaVars,
                   tailVars, environ>>

NextRequest == BuildRequest

SpecRequest == InitRequest /\ [][NextRequest]_vars

\* ================================================================ properties

\* The freshness rule as the specification states it: a cached token may be
\* reused at time t iff it has no expiry or t < expiry - 10s.
Fresh(cache, t) ==
    /\ cache # <<>>
    /\ \/ cache[1].expires_at = None
       \/ t < cache[1].expires_at - 10

ClientCredentials == bearer_token = None /\ oauth2_token_url
NeverExpiring == expires_in.kind \in {"absent", "non-numeric"} \/ expires_in = Seconds(Long)

\* C1 (SpecSeq): sequential calls on an oauth2 AuthConfig without a static token.
\* A call that finds the cached token fresh returns that token, sends nothing to
\* the token endpoint and leaves the cache as it is; a call that finds the cache
\* empty or the token expired and returns a token has sent exactly one POST,
\* returns the newly issued token and has put it in the cache in place of the
\* old one. While the endpoint's tokens outlive the run, one token is issued in
\* total.
C1_TokenReuse ==
    /\ (bearer_token = None /\ obs.path \in {"hit", "miss"}) =>
         IF Fresh(obs.cache, obs.at)
         THEN /\ obs.path = "hit" /\ obs.done /\ obs.err = "none"
              /\ obs.ret = obs.cache[1].access_token
              /\ token_calls = obs.calls
              /\ cached_token = obs.cache
         ELSE /\ obs.path = "miss"
              /\ (obs.done /\ obs.err = "none") =>
                   /\ token_calls = obs.calls + 1
                   /\ obs.ret = issued
                   /\ cached_token # <<>>
                   /\ cached_token[1].access_token = obs.ret
                   /\ cached_token # obs.cache
    /\ (bearer_token = None /\ NeverExpiring) => issued <= 1

\* Witness: first call exchanged, second reused, the clock passed the expiry, the
\* third call exchanged again and replaced tok-1 by tok-2.
C1_Witness ==
    /\ ClientCredentials /\ expires_in = Seconds(Skew + 1)
    /\ ncalls = 3 /\ token_calls = 2 /\ issued = 2
    /\ obs.path = "miss" /\ obs.done /\ obs.err = "none"
    /\ obs.cache # <<>> /\ obs.ret = 2
    /\ cached_token # <<>> /\ cached_token[1].access_token = 2

\* C2 (Spec): threads calling concurrently on one AuthConfig: the check / exchange /
\* store sequence is mutually exclusive, at most one exchange is in flight, and
\* with a long-lived token exactly one exchange happens in total.
C2_SingleExchange ==
    /\ Cardinality({t \in threads : pc[t] = "wait"}) <= 1
    /\ (ClientCredentials /\ expires_in = Seconds(Long)) => issued <= 1

\* C3 (SpecSeq): the endpoint's expires_in is at most the skew. Every call sends
\* exactly one POST (k calls, k exchanges), a call that returns a token returns
\* the newest one, and when every exchange succeeded the i-th call returns tok-i.
ShortLived == expires_in.kind = "seconds" /\ expires_in.secs <= Skew

C3_NeverReused ==
    (ClientCredentials /\ client_creds /\ ShortLived) =>
        /\ obs.path # "hit"
        /\ pc[1] = "idle" => token_calls = ncalls
        /\ (obs.done /\ obs.err = "none") =>
              /\ obs.ret = issued
              /\ issued = token_calls => obs.ret = ncalls

C3_Witness ==
    /\ ClientCredentials /\ client_creds /\ expires_in = Seconds(Skew)
    /\ pc[1] = "idle" /\ now = 0
    /\ ncalls = 3 /\ token_calls = 3 /\ issued = 3
    /\ obs.done /\ obs.ret = 3 /\ obs.cache # <<>>

\* C4 (Spec): a cache check misses iff the cache is empty or the token has an
\* expiry and now >= expiry - 10s; a token from an answer without a numeric
\* expires_in has no expiry; once such a token is cached the cache keeps holding
\* a token without expiry and no cache check made from then on leads to an
\* exchange.
C4_ExpiredIff ==
    /\ obs.path \in {"hit", "miss"} =>
         (obs.path = "miss" <=>
            \/ obs.cache = <<>>
            \/ /\ obs.cache[1].expires_at # None
               /\ obs.at >= obs.cache[1].expires_at - 10)
    /\ cached_token # <<>> =>
         (cached_token[1].expires_at = None <=> expires_in.kind \in {"absent", "non-numeric"})

C4_NoExpiryIsFinal ==
    (cached_token # <<>> /\ cached_token[1].expires_at = None) =>
        /\ cached_token' # <<>> /\ cached_token'[1].expires_at = None
        /\ \A t \in threads :
              (pc[t] = "check" /\ pc'[t] # "check") =>
                  pc'[t] = "idle" /\ token_calls' = token_calls

C4_NeverExpires == []C4_ExpiredIff /\ [][C4_NoExpiryIsFinal]_vars

\* Witness: a token without expiry is cached and a later call reused it at a
\* later time.
C4_Witness ==
    /\ expires_in.kind = "non-numeric"
    /\ cached_token # <<>> /\ cached_token[1].expires_at = None
    /\ obs.path = "hit" /\ obs.done /\ obs.at > 0 /\ obs.ret = 1
    /\ token_calls = 1

\* C5 (Spec): with a static bearer token every call returns that token at once;
\* nothing is sent to the token endpoint, no lock is made and the cache slot is
\* never written, also when a token URL and client credentials are configured.
C5_StaticTokenWins ==
    bearer_token # None =>
        /\ token_calls = 0
        /\ cached_token = <<>>
        /\ lock = None
        /\ \A t \in threads : pc[t] = "idle"
        /\ ncalls > 0 =>
              /\ obs.path = "static" /\ obs.done /\ obs.err = "none"
              /\ obs.ret = bearer_token
              /\ obs.calls = 0 /\ obs.cache = <<>>

C5_Witness ==
    /\ bearer_token = StaticToken /\ oauth2_token_url /\ client_creds
    /\ ncalls = 2 /\ obs.done /\ obs.ret = StaticToken

\* ------------------------------------------------------------ the run
Range(f) == {f[i] : i \in DOMAIN f}
EndpointTokens == {u.token : u \in {v \in Range(trail) : v.token >= 1}}

\* C6 (SpecRun): a token that the AuthConfig of an override check obtained is
\* carried by that check alone and is never the token in the run-wide cache.
\* Checks with default auth carry the token of the run-wide cache: the latest
\* default check's token is the cached one, and all of them carry the same token
\* when it never expires. Every token the endpoint issued was obtained by exactly
\* one check, so an oauth2 override check pays for its token with its own exchange.
C6_OverrideIsolation ==
    /\ \A i, j \in DOMAIN trail :
          (i # j /\ trail[i].override) => trail[j].token # trail[i].token
    /\ \A i \in DOMAIN trail :
          trail[i].override =>
             (cached_token = <<>> \/ cached_token[1].access_token # trail[i].token)
    /\ \A i \in DOMAIN trail :
          (trail[i].token >= 1 /\ ~trail[i].override) =>
             /\ cached_token # <<>>
             /\ (\A j \in (i + 1)..Len(trail) : trail[j].override \/ trail[j].token < 1)
                   => cached_token[1].access_token = trail[i].token
             /\ expires_in = Absent => trail[i].token = cached_token[1].access_token
    /\ issued = Cardinality(EndpointTokens)
    /\ token_calls >= issued

\* Witness: check 1 (default auth) cached tok-1; check 2 (oauth2 override)
\* exchanged for tok-2 while tok-1 was still fresh in the run-wide cache.
C6_Witness ==
    /\ expires_in = Absent /\ Len(sent) = 2
    /\ trail = <<[token |-> 1, override |-> FALSE], [token |-> 2, override |-> TRUE]>>
    /\ cached_token # <<>> /\ cached_token[1].access_token = 1
    /\ token_calls = 2

\* C7 (SpecRun): as soon as a stage of check idx fails, or the check's shape is
\* wrong, the run is over with that check's failure: no request has gone out for a
\* later check, every earlier check passed, and nothing is returned. A run that
\* returns has no failure.
RunFailFast ==
    /\ (\E k \in DOMAIN evaluated : ~evaluated[k].ok) =>
          /\ rpc = "raised"
          /\ failure.stage = evaluated[Len(evaluated)].stage
    /\ check.cfg # "ok" => rpc = "raised" /\ failure.stage \in {"config", "override", "auth"}
    /\ rpc = "raised" =>
          /\ failure # NoFailure /\ failure.check = idx
          /\ returned = <<>>
          /\ \A k \in DOMAIN sent : sent[k] <= idx
          /\ Len(results) = idx - 1
    /\ failure # NoFailure => rpc = "raised"
    /\ returned # <<>> => rpc = "returned" /\ failure = NoFailure

\* Once the run has raised, no request goes out and no result is added or returned.
C7_Final ==
    rpc = "raised" => UNCHANGED <<sent, results, returned, failure, rpc, idx>>

C7_FailFast == []RunFailFast /\ [][C7_Final]_vars

\* Witness: check 1 passed, check 2 of 2 failed a stage after its request went out.
C7_Witness ==
    /\ rpc = "raised" /\ idx = 2 /\ nchecks = 2
    /\ failure.stage = "schema" /\ failure.check = 2
    /\ sent = <<1, 2>> /\ Len(results) = 1 /\ returned = <<>>

RunStages == {"status", "headers", "decode", "schema", "assert"}

\* C8 (SpecRun): requests go out in declaration order, the request of a check only
\* after every earlier check has been appended; the result list is always the
\* checks 1..idx-1 in order, each with the status code it declared, and the run
\* returns that list with one result per declared check.
C8_DeclarationOrder ==
    /\ \A i \in DOMAIN results : results[i].check = i
    /\ \A i \in DOMAIN sent : sent[i] = i
    /\ Len(results) = idx - 1
    /\ Len(sent) \in {Len(results), Len(results) + 1}
    /\ rpc \in RunStages => Len(sent) = idx
    /\ rpc \in {"loop", "send", "returned"} => Len(sent) = idx - 1
    /\ idx <= nchecks + 1
    /\ returned # <<>> =>
          /\ returned[1] = results
          /\ Len(results) = nchecks

C8_Witness ==
    /\ rpc = "returned" /\ nchecks = 2
    /\ returned = <<results>>
    /\ results = <<[check |-> 1, status_code |-> 200], [check |-> 2, status_code |-> 503]>>
    /\ sent = <<1, 2>>

\* What the specification calls the validation stages, in its order, and when a
\* response passes one.
StageOrder == <<"status", "headers", "schema", "assert">>
StageDeclared(s, c) ==
    \/ s = "status"
    \/ s = "headers" /\ c.has_headers
    \/ s = "schema" /\ c.has_schema
    \/ s = "assert" /\ c.has_assert
DeclaredStages(c) == SelectSeq(StageOrder, LAMBDA s : StageDeclared(s, c))
StagePasses(s, c, r) ==
    \/ s = "status" /\ StatusOK(r, c)
    \/ s = "headers" /\ r.hdr_ok
    \/ s = "schema" /\ r.schema_ok
    \/ s = "assert" /\ r.body = "object" /\ r.assert_ok
Validated == SelectSeq(evaluated, LAMBDA v : v.stage # "decode")

\* C9 (SpecRun): the stages evaluated for a check are its declared stages in the
\* order status, headers, schema, assertions, each with the verdict the response
\* deserves, up to and including the first one that fails; that one is the
\* failure reported. A result is appended only when every declared stage passes.
C9_Evaluated ==
    /\ Len(Validated) <= Len(DeclaredStages(check))
    /\ \A k \in DOMAIN Validated :
          /\ Validated[k].stage = DeclaredStages(check)[k]
          /\ Validated[k].ok = StagePasses(Validated[k].stage, check, resp)
          /\ k < Len(Validated) => Validated[k].ok
    /\ (rpc = "raised" /\ failure.stage \in Range(StageOrder)) =>
          /\ evaluated # <<>>
          /\ evaluated[Len(evaluated)] = [stage |-> failure.stage, ok |-> FALSE]
    /\ (rpc = "raised" /\ failure.stage \in {"config", "override", "auth", "network"}) =>
          evaluated = <<>>

C9_Append ==
    Len(results') > Len(results) =>
        \A k \in DOMAIN DeclaredStages(check) :
            StagePasses(DeclaredStages(check)[k], check, resp)

C9_StageOrder == []C9_Evaluated /\ [][C9_Append]_vars

\* Witness: the response has the wrong status and breaks the header rules, all four
\* stages are declared; the status failure is reported and nothing else was looked at.
C9_Witness ==
    /\ rpc = "raised" /\ failure.stage = "status"
    /\ check.has_headers /\ check.has_schema /\ check.has_assert
    /\ ~resp.hdr_ok
    /\ evaluated = <<[stage |-> "status", ok |-> FALSE]>>

\* C10 (SpecRun): the status stage passes iff the status code equals the declared
\* expected_status, 200 when none is declared; a mismatch raises a failure that
\* carries the expected and the actual status code.
Expected == IF check.expected_status = None THEN 200 ELSE check.expected_status

C10_ExactStatus ==
    \A k \in DOMAIN evaluated :
        evaluated[k].stage = "status" =>
            /\ evaluated[k].ok <=> resp.status = Expected
            /\ ~evaluated[k].ok =>
                  /\ rpc = "raised"
                  /\ failure = Failure(idx, "status", Expected, resp.status)

\* ------------------------------------------------------ failed exchanges
\* The token endpoint answered, and not with a 2xx status and a JSON object that
\* holds a non-empty access_token.
BadAnswer(e) ==
    /\ e.needed /\ e.status \notin {None, 0}
    /\ \/ e.status < 200 \/ e.status > 299
       \/ e.body # "token"

\* C11 (SpecRun): an exchange that is needed while client id or secret is missing
\* raises a configuration error and nothing is sent to the token endpoint; an
\* answer that is non-2xx, not a JSON object or without access_token raises an
\* auth failure. Either way the cached-token slot stays as it was and no request
\* of that check goes to the SUT.
C11_Raises ==
    /\ exchange = NotAsked =>
          /\ rpc = "raised" /\ failure = Failure(idx, "config", None, None)
          /\ \A k \in DOMAIN sent : sent[k] # idx
    /\ BadAnswer(exchange) =>
          /\ rpc = "raised" /\ failure = Failure(idx, "auth", None, None)
          /\ \A k \in DOMAIN sent : sent[k] # idx

C11_SlotKept ==
    (exchange' # exchange /\ (exchange' = NotAsked \/ BadAnswer(exchange'))) =>
        /\ cached_token' = cached_token
        /\ sent' = sent
        /\ token_calls' = IF exchange' = NotAsked THEN token_calls ELSE token_calls + 1

C11_ExchangeFailures == []C11_Raises /\ [][C11_SlotKept]_vars

\* ------------------------------------------------------------ no retry
Prepared == IF rpc \in {"loop", "returned"} THEN idx - 1 ELSE idx
Requests(i) == Cardinality({k \in DOMAIN sent : sent[k] = i})

\* C12 (SpecRun): every check that got as far as its request has sent exactly one
\* request, a check that passed included; a check's get_bearer_token call sends
\* at most one POST to the token endpoint; a request or an exchange that times
\* out, cannot connect or is answered with an error status ends the check, and
\* the run, with that failure.
C12_OneAttempt ==
    /\ \A i \in 1..nchecks : Requests(i) <= 1
    /\ \A i \in DOMAIN results : Requests(results[i].check) = 1
    /\ rpc \in RunStages => Requests(idx) = 1
    /\ token_calls <= Prepared
    /\ (rpc = "raised" /\ failure.stage = "network") =>
          /\ Requests(idx) = 1
          /\ Len(results) = idx - 1
    /\ (exchange.needed /\ (exchange.status = 0 \/ exchange.status >= 400)) =>
          /\ rpc = "raised" /\ failure.stage = "auth"
          /\ Requests(idx) = 0

C12_Step ==
    /\ token_calls' \in {token_calls, token_calls + 1}
    /\ Len(sent') \in {Len(sent), Len(sent) + 1}
    /\ rpc = "raised" => sent' = sent /\ token_calls' = token_calls

AcceptedOverrides ==
    { <<>>,
      <<"d", "e", "f", "a", "u", "l", "t">>,
      <<"n", "o", "n", "e">>,
      <<"a", "p", "i", "_", "k", "e", "y">>,
      <<"a", "p", "i", "k", "e", "y">>,
      <<"o", "a", "u", "t", "h", "2">>,
      <<"b", "e", "a", "r", "e", "r">> }
TrimsTo(raw, w) ==
    \E i \in 1..(Len(raw) + 1) :
        /\ i + Len(w) - 1 <= Len(raw)
        /\ \A k \in 1..(i - 1) : raw[k] \in Whitespace
        /\ \A k \in (i + Len(w))..Len(raw) : raw[k] \in Whitespace
        /\ \A k \in 1..Len(w) : LowerChar(raw[i + k - 1]) = w[k]
        /\ w # <<>> => w[1] \notin Whitespace /\ w[Len(w)] \notin Whitespace
IsAccepted(raw) == \E w \in AcceptedOverrides : TrimsTo(raw, w)

\* C13 (SpecRun): a declared auth override that is one of the accepted values
\* after trimming and lower-casing never raises the unknown-override error; any
\* other value raises it, for a check that has a path, with no token exchange and
\* no request made for the check, and the run is over: no later check runs.
C13_Resolved ==
    auth_override # <<>> =>
        IF IsAccepted(auth_override[1])
        THEN failure.stage # "override"
        ELSE /\ rpc = "raised"
             /\ check.cfg # "no_path" => failure = Failure(idx, "override", None, None)
             /\ exchange = NoExchange
             /\ \A k \in DOMAIN sent : sent[k] # idx

C13_Fatal ==
    /\ (failure.stage # "override" /\ failure'.stage = "override") =>
          token_calls' = token_calls /\ cached_token' = cached_token /\ sent' = sent
    /\ failure.stage = "override" => UNCHANGED <<idx, rpc, check, sent, token_calls, results>>

C13_AuthOverride == []C13_Resolved /\ [][C13_Fatal]_vars

\* Witness: the first of two checks declares auth "basic".
C13_Witness ==
    /\ nchecks = 2 /\ idx = 1 /\ rpc = "raised"
    /\ auth_override = << <<"b", "a", "s", "i", "c">> >>
    /\ failure = Failure(1, "override", None, None)
    /\ sent = <<>> /\ token_calls = 0

\* ------------------------------------------------ api_key, url, headers
KeyAndHeader == mode = "api_key" /\ api_key # "" /\ api_key_header # ""
KeyAndParam == mode = "api_key" /\ api_key # "" /\ api_key_query_param # ""

\* C14 (SpecApply): in api_key mode with a key and a header name, the dict that
\* apply_headers returns holds the configured header with the key as its value,
\* and apart from that header it has the names and values of the dict passed in.
C14_ApiKeyHeader ==
    (apc = "done" /\ KeyAndHeader) =>
        /\ api_key_header \in DOMAIN out_headers
        /\ out_headers[api_key_header] = Text(api_key)
        /\ DOMAIN out_headers = DOMAIN arg_headers \cup {api_key_header}
        /\ \A n \in DOMAIN arg_headers \ {api_key_header} : out_headers[n] = arg_headers[n]

\* Witness: the dict passed in holds Accept and an old X-API-Key.
C14_Witness ==
    /\ apc = "done" /\ KeyAndHeader
    /\ DOMAIN arg_headers = {"Accept", "X-API-Key"}
    /\ arg_headers["X-API-Key"] = Text("old")
    /\ out_headers["X-API-Key"] = Text("k")
    /\ out_headers["Accept"] = Text("old")

KeyInHeader == \E n \in DOMAIN out_headers : out_headers[n] = Text(api_key)
KeyInQuery == \E i \in DOMAIN out_url.query : out_url.query[i][2] = api_key

\* C15 (SpecApply): the request an api_key AuthConfig has prepared carries the key
\* through one channel: in the query string and not in a header when a
\* query-parameter name is configured, in the configured header otherwise; never
\* in both.
C15_OneChannel ==
    (apc = "done" /\ mode = "api_key" /\ api_key # "") =>
        /\ api_key_query_param # "" => KeyInQuery /\ ~KeyInHeader
        /\ (api_key_query_param = "" /\ api_key_header # "") => KeyInHeader /\ ~KeyInQuery
        /\ ~(KeyInHeader /\ KeyInQuery)

Others(q) == {q[i] : i \in {k \in DOMAIN q : q[k][1] # api_key_query_param}}

\* C16 (SpecApply): with a key and a query-parameter name apply_url returns the
\* url with that parameter occurring once, with the key as value, every other
\* name=value pair of the query kept and none added, scheme, host and path as
\* they were; in every other case it returns the url as it was.
C16_ApplyUrl ==
    apc \in {"url", "done", "raised"} =>
        IF KeyAndParam
        THEN /\ Cardinality({i \in DOMAIN out_url.query :
                                out_url.query[i][1] = api_key_query_param}) = 1
             /\ \E i \in DOMAIN out_url.query :
                   out_url.query[i] = <<api_key_query_param, api_key>>
             /\ Others(out_url.query) = Others(arg_url.query)
             /\ out_url.scheme = arg_url.scheme
             /\ out_url.netloc = arg_url.netloc
             /\ out_url.path = arg_url.path
        ELSE out_url = arg_url

\* C17 (SpecApply): apply_url and apply_headers leave the url and the header dict
\* passed in as they were, change nothing of the AuthConfig but its cached token,
\* and in mode none return what they were given.
C17_Step ==
    apc' # apc =>
        /\ arg_url' = arg_url
        /\ arg_headers' = arg_headers
        /\ UNCHANGED <<mode, api_key, api_key_header, api_key_query_param, bearer_token,
                       oauth2_token_url, client_creds, lock>>
        /\ mode = "none" =>
              /\ apc' = "url" => out_url' = arg_url
              /\ apc' = "done" => out_headers' = arg_headers

C17_Pure == [][C17_Step]_vars

\* ---- C18: the assertions of a check are evaluated in declaration order: the
\* error raised is the own failure of the first assertion that does not pass,
\* the loop never goes on after it, an assertion of an unknown type raises when
\* the loop reaches it, and a list that holds one never passes.
FirstFailure(k) ==
    /\ AssertionOutcome(payload, assertions[k]) # "pass"
    /\ \A j \in 1..(k - 1) : AssertionOutcome(payload, assertions[j]) = "pass"
C18_State ==
    /\ astate = "running" =>
          \A j \in 1..(ai - 1) : AssertionOutcome(payload, assertions[j]) = "pass"
    /\ astate = "raised" =>
          /\ FirstFailure(aerr.index)
          /\ aerr.kind = AssertionOutcome(payload, assertions[aerr.index])
          /\ ai = aerr.index
          /\ assertions[aerr.index].type \notin KnownTypes => aerr.kind = "unknown type"
    /\ astate = "passed" =>
          \A j \in DOMAIN assertions :
              /\ assertions[j].type \in KnownTypes
              /\ AssertionOutcome(payload, assertions[j]) = "pass"
C18_Step ==
    /\ ai' \in {ai, ai + 1}
    /\ astate = "raised" => UNCHANGED assertVars
C18_InOrder == []C18_State /\ [][C18_Step]_vars
C18_Witness ==
    /\ astate = "raised"
    /\ Len(assertions) = 2
    /\ aerr.index = 1
    /\ aerr.kind = "failed"
    /\ assertions[2].type \notin KnownTypes

\* The assertion the loop evaluated last and how it came out.
Latest == IF astate = "raised" THEN aerr.index ELSE ai - 1
LatestOutcome == IF astate = "raised" THEN aerr.kind ELSE "pass"
\* The path leads to a key of the payload, through objects only.
RECURSIVE Found(_, _)
Found(d, parts) ==
    \/ parts = <<>>
    \/ /\ d.t = "obj"
       /\ \E kv \in d.kids : kv[1] = Head(parts) /\ Found(kv[2], Tail(parts))

\* ---- C19: a path with a missing key, or with a list or a scalar before its
\* last segment, resolves to not-found, and json_path_exists fails exactly when
\* the path is not found: it passes for every value that is present.
C19_Exists ==
    (Latest >= 1 /\ resolved # <<>> /\ assertions[Latest].type = "json_path_exists") =>
        LET a == assertions[Latest] IN
        /\ ~Found(payload, a.path) => resolved = <<JNull>>
        /\ LatestOutcome = "failed" <=> ~Found(payload, a.path)

\* ---- C20: a path that is not found does not resolve to what a key present
\* with null resolves to, and an assertion that expects null does not pass on
\* a path that is not found.
C20_Distinct ==
    (Latest >= 1 /\ resolved # <<>> /\ ~Found(payload, assertions[Latest].path)) =>
        LET a == assertions[Latest] IN
        /\ resolved # <<JNull>>
        /\ a.type = "json_path_equals" /\ a.expected = JNull => LatestOutcome # "pass"
        /\ (a.type = "json_path_one_of" /\ \E k \in DOMAIN a.any_of : a.any_of[k] = JNull)
              => LatestOutcome # "pass"

\* ---- C21: a json_path_range assertion on a number v passes exactly when v is
\* at least min (if min is given and not null) and at most max (if max is given
\* and not null), both ends included; on a path that is not found it fails; and
\* the error of a violated bound shows the actual value.
Score == DictGet(payload, "score")
AtLeast(v, bound) == bound \in {<<>>, <<JNull>>} \/ v >= bound[1].v
AtMost(v, bound) == bound \in {<<>>, <<JNull>>} \/ v <= bound[1].v
C21_Range ==
    Latest = 1 =>
        LET a == assertions[1] IN
        /\ (a.path = <<"score">> /\ Score.t = "num") =>
              /\ LatestOutcome = "pass" <=> AtLeast(Score.v, a.min) /\ AtMost(Score.v, a.max)
              /\ LatestOutcome # "pass" => aerr.got = <<Score>>
        /\ ~Found(payload, a.path) => LatestOutcome = "failed"
C21_Witness ==
    /\ astate = "raised"
    /\ Score = JNum(2)
    /\ assertions[1].path = <<"score">>
    /\ assertions[1].min = <<JNum(3)>>
    /\ assertions[1].max = <<>>
    /\ aerr.got = <<JNum(2)>>

\* ---- C22: json_path_equals passes exactly when the resolved value and the
\* expected value are the same by type and content, at every depth;
\* json_path_one_of passes exactly when any_of is a list, is not empty and has
\* such a member, and fails with any_of missing, not a list or empty.
C22_Structural ==
    Latest = 1 =>
        LET a == assertions[1] IN
        /\ a.type = "json_path_equals" =>
              (LatestOutcome = "pass" <=> resolved = <<a.expected>>)
        /\ a.type = "json_path_one_of" =>
              (LatestOutcome = "pass" <=>
                  /\ a.options = "list"
                  /\ a.any_of # <<>>
                  /\ \E k \in DOMAIN a.any_of : resolved = <<a.any_of[k]>>)

\* ---- C23: a string rule passes exactly when the header exists and equals the
\* string; true exactly when it exists; a mapping exactly when each sub-rule it
\* declares passes (exists: the header exists; equals: it exists and is the
\* declared value as a string; contains: it exists and has the value as a
\* substring; regex: it exists and the expression is found in it); a rule of
\* another shape is an error. The check fails with the first rule, in declared
\* order, that does not pass, and the error names its header.
RulePasses(actual, rule) ==
    CASE rule.shape = "str" -> actual = <<rule.value>>
      [] rule.shape = "true" -> actual # <<>>
      [] rule.shape = "dict" ->
            /\ rule.exists = "true" => actual # <<>>
            /\ rule.equals # <<>> => actual # <<>> /\ actual[1] = PyStr(rule.equals[1])
            /\ rule.contains # <<>> =>
                  actual # <<>> /\ IsSubstring(PyStr(rule.contains[1]), actual[1])
            /\ rule.regex # <<>> => actual # <<>> /\ Search(rule.regex[1], actual[1])
      [] OTHER -> FALSE
RuleAt(k) == expected_headers[k][2]
ActualAt(k) == resp_headers[expected_headers[k][1]]
C23_HeaderRules ==
    /\ hstate = "running" => \A k \in 1..(hidx - 1) : RulePasses(ActualAt(k), RuleAt(k))
    /\ hstate = "passed" => \A k \in DOMAIN expected_headers : RulePasses(ActualAt(k), RuleAt(k))
    /\ hstate = "raised" =>
          /\ ~RulePasses(ActualAt(herr.index), RuleAt(herr.index))
          /\ \A k \in 1..(herr.index - 1) : RulePasses(ActualAt(k), RuleAt(k))
          /\ herr.name = expected_headers[herr.index][1]
          /\ hidx = herr.index
          /\ RuleAt(herr.index).shape = "other" <=> herr.kind = "unsupported"
C23_Witness ==
    /\ hstate = "raised"
    /\ Len(expected_headers) = 2
    /\ herr.index = 2
    /\ herr.name = "ETag"
    /\ herr.kind = "missing"
    /\ RuleAt(1).shape = "dict"

\* ---- C24: over any sequence of validate_schema calls, every schema path is
\* loaded and compiled at most once.
C24_CompiledOnce == \A r \in SchemaRefs : compiled[r] <= 1

\* ---- C25: validate_schema returns exactly when the payload has no violation;
\* otherwise it raises one error for the schema path it was called with, which
\* carries violations in the order of their location paths: the first five of
\* them, or all if there are fewer.
InReport(v) == \E i \in DOMAIN sresult.reported : sresult.reported[i] = v
C25_Validate ==
    sresult.state \in {"returned", "raised"} =>
        /\ sresult.state = "returned" <=> violations = <<>>
        /\ sresult.state = "raised" =>
              LET rep == sresult.reported IN
              /\ sresult.ref = 1
              /\ Len(rep) = IF Len(violations) < 5 THEN Len(violations) ELSE 5
              /\ \A i \in DOMAIN rep : \E k \in DOMAIN violations : rep[i] = violations[k]
              /\ \A i, j \in DOMAIN rep :
                    /\ i < j => ~PathLess(rep[j].path, rep[i].path)
                    /\ i # j => rep[i] # rep[j]
              /\ \A k \in DOMAIN violations :
                    ~InReport(violations[k]) =>
                        \A i \in DOMAIN rep : ~PathLess(violations[k].path, rep[i].path)
C25_Witness ==
    /\ sresult.state = "raised"
    /\ Len(violations) = 6
    /\ violations[1].path = <<1>>
    /\ violations[6].path = <<>>
    /\ sresult.reported[1] = violations[6]
    /\ ~InReport(violations[1])

\* ---- C26: the body is decoded only when it is not empty, and the payload of
\* an empty body is absent; with assertions declared, none is evaluated unless
\* the payload is an object or an array, and the check fails instead; a check
\* with no schema and no assertions passes on an empty body and its result has
\* an absent json.
Plain == ~schema_declared /\ assertions = <<>> /\ content = ""
C26_Payload ==
    /\ decoded <=> (content # "" /\ tpc # "decode")
    /\ (content = "" /\ tpc # "decode") => payload = JNull
    /\ astate # "none" => payload.t \in {"obj", "list"}
    /\ (assertions # <<>> /\ payload.t \notin {"obj", "list"}) =>
          /\ tpc \in {"decode", "schema", "assert", "raised"}
          /\ ai = 1 /\ resolved = <<>>
    /\ tfail = "payload" => assertions # <<>> /\ payload.t \notin {"obj", "list"}
    /\ Plain => tpc # "raised"
    /\ (Plain /\ tpc = "done") => appended = <<JNull>>
C26_Witness ==
    /\ tpc = "raised"
    /\ tfail = "payload"
    /\ content = "0"
    /\ decoded
    /\ Len(assertions) = 2

\* ---- C27: an exchange that raises inside get_bearer_token releases the lock
\* and caches nothing: no lock is held by a thread outside the with block, the
\* step that raises leaves the cached token as it was and frees the lock of
\* its thread, a call that then finds no valid cached token attempts an
\* exchange of its own, and a thread that waits for the lock gets it.
InWith(t) == pc[t] \in {"check", "fetch", "wait"}
Raises(t) == InWith(t) /\ pc'[t] = "idle" /\ obs'.err # "none"
C27_Held == \A l \in Threads : holder[l] # 0 => InWith(holder[l])
C27_Step ==
    \A t \in Threads :
        /\ Raises(t) =>
              /\ cached_token' = cached_token
              /\ \A l \in Threads : holder'[l] # t
        /\ (pc[t] = "check" /\ pc'[t] # "check" /\ ~CacheHit(cached_token, now)) =>
              pc'[t] = "fetch"
C27_Gets == \A t \in Pair : (pc[t] = "acquire") ~> (pc[t] = "check")
C27_LockReleased == []C27_Held /\ [][C27_Step]_vars /\ C27_Gets
C27_Witness ==
    /\ obs.err \notin {"none", "config"}
    /\ \E t, u \in Threads :
          /\ t # u
          /\ pc[t] = "idle"
          /\ pc[u] = "check"
          /\ mylock[u] = lock
          /\ nlocks = 1

\* ---- C28: no check changes the header map of the run: it stays the map built
\* before the first check, and in the request of every check each header that
\* neither the auth of that check nor its extra headers set is a header of
\* that map, with its value; a header an earlier check added is not among them.
Base == BaseHeaders(environ.SUT_TOKEN)
OwnNames(r) == r.auth_names \cup DOMAIN r.extra
C28_BaseKept ==
    /\ base_headers = Base
    /\ \A i \in DOMAIN built :
          \A n \in (DOMAIN built[i].headers \cup DOMAIN Base) \ OwnNames(built[i]) :
             /\ n \in DOMAIN Base
             /\ n \in DOMAIN built[i].headers
             /\ built[i].headers[n] = Base[n]
C28_Witness ==
    /\ Len(built) = 2
    /\ built[1].auth_names = {"X-API-Key"}
    /\ "X-Trace" \in DOMAIN built[1].extra
    /\ built[2].auth = "none"
    /\ built[2].extra = NoHeaders
    /\ built[2].headers = Base
    /\ "X-API-Key" \notin DOMAIN built[2].headers
    /\ "X-Trace" \notin DOMAIN built[2].headers

\* ---- C29: the extra headers of a check are merged after auth was applied:
\* every header name among them is in the request with the check's value, its
\* references to environment variables expanded, also when auth or the legacy
\* token set that name.
C29_ExtraWins ==
    \A i \in DOMAIN built :
       \A n \in DOMAIN built[i].extra :
          /\ n \in DOMAIN built[i].headers
          /\ built[i].headers[n] = Text(expand_env_vars(built[i].extra[n], environ))
C29_Witness ==
    /\ environ.TOKEN = "t"
    /\ environ.SUT_TOKEN = LegacyToken
    /\ \E i, j \in DOMAIN built :
          /\ built[i].auth_names = {"Authorization"}
          /\ built[i].after_auth["Authorization"] = Bearer(1)
          /\ built[i].extra = [n \in {"Authorization"} |-> Ref]
          /\ built[i].headers["Authorization"] = Text("t")
          /\ built[j].auth_names = {}
          /\ built[j].after_auth["Authorization"] = Bearer(LegacyToken)
          /\ built[j].headers["Authorization"] = Text("t")

\* ---- C30: a check with an api_key or oauth2 override in a run whose mode is
\* another one gets nothing from its auth: the url is the url of the check, the
\* header map auth returns is the header map of the run, no token request is
\* made, and building the request does not raise.
Foreign(a) == a \in {"api_key", "oauth2"} /\ a # mode
====
